---- MODULE Spec2Model ----
(***************************************************************************)
(* nc2zarr: the slice-level writer (nc2zarr/writer.py), the slice locator  *)
(* and slice updater (nc2zarr/dataslice.py) and the converter loop         *)
(* (nc2zarr/converter.py) as a state machine.                              *)
(*                                                                         *)
(* A store is the Zarr directory: the coordinate array of append_dim (t),  *)
(* one data array carrying append_dim (v), one array without append_dim    *)
(* (s), the root group attributes and the consolidated metadata file.      *)
(* Coordinates are datetime64 values counted in half milliseconds, so the  *)
(* 1 ms DEFAULT_EPSILON is 2 units.  Data payloads are provenance tags:    *)
(* 0 for what the store held before the run, k for the k-th written        *)
(* dataset, Empty for a step added by zarr.creation.empty and never        *)
(* filled.                                                                 *)
(***************************************************************************)
EXTENDS Integers, Sequences, FiniteSets, TLC

\* ---- bounds of the model ------------------------------------------------
MaxCoord == 2
MaxDsLen == 2
MaxInitLen == 2
MaxWrites == 2
MaxWriterWrites == 1
MaxTries == 2
MaxFaults == 1
MaxFindLen == 3
MaxSliceCoord == 4
MaxSliceInitLen == 3
MaxRunDsLen == 1
MaxRunInputs == 2
MaxJobs == 2
MaxConfigFiles == 2
MaxFinalizeRuns == 3
MaxMetaCoord == 3
MaxDirs == 2
MaxNames == 2
MaxInputPaths == 2

\* ---- program constants --------------------------------------------------
Epsilon == 2
Empty == -1
\* strftime("%Y-%m-%d %H:%M:%S") of a time in half seconds keeps whole seconds
TicksPerSecond == 2

Coords == 0 .. MaxCoord
APPEND_MODES == {"all", "no_overlap", "newer", "replace", "retain"}

SeqsBetween(S, lo, hi) == UNION {[1 .. k -> S] : k \in lo .. hi}

Abs(x) == IF x < 0 THEN -x ELSE x

VARIABLES
    cfg,        \* constructor arguments of the DatasetWriter / Converter
    store,      \* the output store on the file system
    w,          \* DatasetWriter fields: _output_store, _output_path_exists
    pc,         \* "idle" | "write" | "slices" | "final" | "done"
    call,       \* the running call: dataset, tag, append argument, tries left, slice index
    ghost,      \* history: store before the call, attempts, exceptions, written inputs
    fs,         \* a stand-alone find_slice call: store, target value, result
    conv,       \* a Converter under construction: keyword arguments, fields, exception
    job,        \* an ObservedBatchJob and its observer thread
    proc,       \* a process_dataset call: dataset, arguments, returned encoding
    cli,        \* an nc2zarr command line: configuration files, options, loaded kwargs
    prep,      \* a preprocess_dataset call: dataset, arguments, returned dataset
    batch,     \* the wait loop of the nc2zarr-batch command
    meta,      \* the attributes of the output group and the finalizer runs on them
    res        \* two invocations of resolve_input_paths on one file system

vars == <<cfg, store, w, pc, call, ghost, fs, conv, job, proc, cli,
          prep, batch, meta, res>>

\* ---- the store ------------------------------------------------------------
NoStore == [exists |-> FALSE, t |-> <<>>, v |-> <<>>, s |-> 0, attrs |-> 0,
            zmeta |-> <<>>]

\* zarr.consolidate_metadata: a snapshot of array shapes and group attributes
Snapshot(st) == <<Len(st.t), Len(st.v), st.attrs>>

Tags(n, tag) == [k \in 1 .. n |-> tag]

\* ---- nc2zarr/dataslice.py ---------------------------------------------------

\* ScanSlice with the two comparisons of the loop body in the wrong order
RECURSIVE ScanSlice_InsertFirst(_, _, _, _)
ScanSlice_InsertFirst(coord, target_value, epsilon, i) ==
    IF i >= Len(coord) THEN <<-1, "append">>
    ELSE IF target_value < coord[i + 1] THEN <<i, "insert">>
    ELSE IF Abs(target_value - coord[i + 1]) < epsilon THEN <<i, "replace">>
    ELSE ScanSlice_InsertFirst(coord, target_value, epsilon, i + 1)

\* the linear scan of find_slice from (0-based) index i on
RECURSIVE ScanSlice(_, _, _, _)
ScanSlice(coord, target_value, epsilon, i) ==
    IF i >= Len(coord) THEN <<-1, "append">>
    ELSE IF Abs(target_value - coord[i + 1]) < epsilon THEN <<i, "replace">>
    ELSE IF target_value < coord[i + 1] THEN <<i, "insert">>
    ELSE ScanSlice(coord, target_value, epsilon, i + 1)

find_slice(st, target_value, epsilon) ==
    IF ~st.exists THEN <<-1, "create">>
    ELSE ScanSlice(st.t, target_value, epsilon, 0)

\* UpdateArray without the shift of the contents behind the insert index
UpdateArray_NoShift(var_array, insert_index, slice_value, insert_mode) ==
    LET extended == IF insert_mode THEN Append(var_array, Empty) ELSE var_array
    IN  IF insert_index + 1 > Len(extended)
        THEN [arr |-> extended, ok |-> FALSE]
        ELSE [arr |-> [extended EXCEPT ![insert_index + 1] = slice_value],
              ok |-> TRUE]

\* update_slice, the body of the loop over root_group.arrays() for one array
\* that carries the dimension: append one empty step, shift, replace.
\* ok is FALSE when var_array[insert_index] is out of bounds (IndexError).
UpdateArray(var_array, insert_index, slice_value, insert_mode) ==
    LET extended == IF insert_mode THEN Append(var_array, Empty) ELSE var_array
        shifted  == IF insert_mode
                    THEN [k \in 1 .. Len(extended) |->
                            IF k >= insert_index + 2 THEN extended[k - 1]
                            ELSE extended[k]]
                    ELSE extended
    IN  IF insert_index + 1 > Len(shifted)
        THEN [arr |-> shifted, ok |-> FALSE]
        ELSE [arr |-> [shifted EXCEPT ![insert_index + 1] = slice_value],
              ok |-> TRUE]

\* The outcome o of an operation that does store I/O: "ok", or a transient
\* I/O error raised before the first mutation ("before"), after the
\* coordinate array was written but not the data array ("mid"), or after all
\* arrays were written but before the metadata was consolidated ("after").
Outcomes == {"ok", "before", "mid", "after"}

update_slice(st, insert_index, coord_value, tag, mode, o) ==
    LET insert_mode  == mode = "insert"
        consolidated == st.zmeta # <<>>
        rt == UpdateArray(st.t, insert_index, coord_value, insert_mode)
        rv == UpdateArray(st.v, insert_index, tag, insert_mode)
        st_t == [st EXCEPT !.t = rt.arr]
        st_tv == [st_t EXCEPT !.v = rv.arr]
    IN  IF o = "before" THEN [store |-> st, exc |-> "IOError"]
        ELSE IF ~rt.ok THEN [store |-> st_t, exc |-> "IndexError"]
        ELSE IF o = "mid" THEN [store |-> st_t, exc |-> "IOError"]
        ELSE IF ~rv.ok THEN [store |-> st_tv, exc |-> "IndexError"]
        ELSE IF o = "after" THEN [store |-> st_tv, exc |-> "IOError"]
        ELSE [store |-> IF consolidated
                        THEN [st_tv EXCEPT !.zmeta = Snapshot(st_tv)]
                        ELSE st_tv,
              exc |-> "none"]

\* xarray Dataset.to_zarr(store, append_dim=...): every array carrying the
\* dimension grows by the new slices, arrays without it are rewritten
ToZarrAppend(st, coords, tag, consolidated, o) ==
    LET st_t   == [st EXCEPT !.exists = TRUE, !.t = st.t \o coords, !.s = tag]
        st_tv  == [st_t EXCEPT !.v = st.v \o Tags(Len(coords), tag)]
    IN  IF o = "before" THEN [store |-> st, exc |-> "IOError"]
        ELSE IF o = "mid" THEN [store |-> st_t, exc |-> "IOError"]
        ELSE IF o = "after" THEN [store |-> st_tv, exc |-> "IOError"]
        ELSE [store |-> IF consolidated
                        THEN [st_tv EXCEPT !.zmeta = Snapshot(st_tv)]
                        ELSE st_tv,
              exc |-> "none"]

append_slice(st, coord_value, tag, o) ==
    ToZarrAppend(st, <<coord_value>>, tag, FALSE, o)

\* ---- nc2zarr/writer.py: DatasetWriter ------------------------------------------

\* _remove_dataset that deletes the store in a dry run too
_remove_dataset_Always(st, wr) ==
    [store |-> NoStore,
     w |-> [wr EXCEPT !.output_path_exists = FALSE]]

\* _remove_dataset: delete the store unless this is a dry run
_remove_dataset(st, wr) ==
    [store |-> IF cfg.dry_run THEN st ELSE NoStore,
     w |-> [wr EXCEPT !.output_path_exists = FALSE]]

\* _ensure_store: on first use look whether the output path exists; remove it
\* when overwrite is set; in finalize-only mode a missing store is an error
_ensure_store(st, wr) ==
    IF wr.output_store
    THEN [store |-> st, w |-> wr, exc |-> "none", removed |-> FALSE]
    ELSE LET wr1 == [wr EXCEPT !.output_path_exists = st.exists] IN
         IF cfg.finalize_only
         THEN IF ~wr1.output_path_exists
              THEN [store |-> st, w |-> wr1, exc |-> "FileNotFoundError",
                    removed |-> FALSE]
              ELSE [store |-> st, w |-> [wr1 EXCEPT !.output_store = TRUE],
                    exc |-> "none", removed |-> FALSE]
         ELSE IF cfg.overwrite /\ wr1.output_path_exists
              THEN LET r == _remove_dataset(st, wr1) IN
                   [store |-> r.store,
                    w |-> [r.w EXCEPT !.output_store = TRUE],
                    exc |-> "none", removed |-> ~cfg.dry_run]
              ELSE [store |-> st, w |-> [wr1 EXCEPT !.output_store = TRUE],
                    exc |-> "none", removed |-> FALSE]

\* _create_dataset that always opens the store with mode 'w'
_create_dataset_ModeW(st, wr, ds, tag, o) ==
    LET created == [exists |-> TRUE, t |-> ds, v |-> Tags(Len(ds), tag),
                    s |-> tag, attrs |-> 0, zmeta |-> <<>>]
        wr1 == [wr EXCEPT !.output_path_exists = TRUE]
    IN  IF cfg.dry_run
        THEN [store |-> st, w |-> wr1, exc |-> "none", next |-> "return"]
        ELSE IF o = "before"
        THEN [store |-> st, w |-> wr, exc |-> "IOError", next |-> "raise"]
        ELSE IF o = "mid"
        THEN [store |-> [created EXCEPT !.v = <<>>], w |-> wr,
              exc |-> "IOError", next |-> "raise"]
        ELSE IF o = "after"
        THEN [store |-> created, w |-> wr, exc |-> "IOError", next |-> "raise"]
        ELSE [store |-> IF cfg.consolidated
                        THEN [created EXCEPT !.zmeta = Snapshot(created)]
                        ELSE created,
              w |-> wr1, exc |-> "none", next |-> "return"]

\* _create_dataset: ds.to_zarr(mode 'w' if overwrite else 'w-')
_create_dataset(st, wr, ds, tag, o) ==
    LET created == [exists |-> TRUE, t |-> ds, v |-> Tags(Len(ds), tag),
                    s |-> tag, attrs |-> 0, zmeta |-> <<>>]
        wr1 == [wr EXCEPT !.output_path_exists = TRUE]
    IN  IF cfg.dry_run
        THEN [store |-> st, w |-> wr1, exc |-> "none", next |-> "return"]
        ELSE IF ~cfg.overwrite /\ st.exists
        THEN [store |-> st, w |-> wr, exc |-> "ContainsGroupError",
              next |-> "raise"]
        ELSE IF o = "before"
        THEN [store |-> st, w |-> wr, exc |-> "IOError", next |-> "raise"]
        ELSE IF o = "mid"
        THEN [store |-> [created EXCEPT !.v = <<>>], w |-> wr,
              exc |-> "IOError", next |-> "raise"]
        ELSE IF o = "after"
        THEN [store |-> created, w |-> wr, exc |-> "IOError", next |-> "raise"]
        ELSE [store |-> IF cfg.consolidated
                        THEN [created EXCEPT !.zmeta = Snapshot(created)]
                        ELSE created,
              w |-> wr1, exc |-> "none", next |-> "return"]

_is_append_dim_monotonic_increasing(arr) ==
    \A k \in 1 .. Len(arr) - 1 : arr[k + 1] >= arr[k]

\* _check_append_allowed: the exception it raises, or "none"
_check_append_allowed(st, ds) ==
    IF cfg.output_append_mode # "all" /\ ~st.exists
    THEN "TypeError"
    ELSE IF cfg.output_append_mode # "all"
            /\ ~_is_append_dim_monotonic_increasing(st.t)
    THEN "ValueError: existing values must be increasing"
    ELSE IF st.exists /\ cfg.output_append_mode = "no_overlap" /\ Len(st.t) = 0
    THEN "IndexError"
    ELSE IF st.exists /\ cfg.output_append_mode = "no_overlap"
            /\ st.t[Len(st.t)] > ds[1]
    THEN "ValueError: values may not overlap"
    ELSE IF cfg.output_append_mode = "newer"
            /\ ~_is_append_dim_monotonic_increasing(ds)
    THEN "ValueError: appended values must be increasing"
    ELSE "none"

\* NewerOnly with >= in place of >
NewerOnly_OrEqual(ds, st) == SelectSeq(ds, LAMBDA c : c >= st.t[Len(st.t)])

\* ds.where(ds[append_dim] > output_ds[append_dim][-1], drop=True)
NewerOnly(ds, st) == SelectSeq(ds, LAMBDA c : c > st.t[Len(st.t)])

\* _append_dataset
_append_dataset(st, wr, ds, tag, o) ==
    LET check == _check_append_allowed(st, ds)
        mode  == cfg.output_append_mode
    IN  IF check # "none"
        THEN [store |-> st, w |-> wr, exc |-> check, next |-> "raise"]
        ELSE IF cfg.dry_run
        THEN [store |-> st, w |-> wr, exc |-> "none", next |-> "return"]
        ELSE IF mode \in {"replace", "retain"}
        THEN [store |-> st, w |-> wr, exc |-> "none", next |-> "slices"]
        ELSE IF mode = "newer" /\ Len(st.t) = 0
        THEN [store |-> st, w |-> wr, exc |-> "IndexError", next |-> "raise"]
        ELSE LET r == ToZarrAppend(st,
                                   IF mode = "newer" THEN NewerOnly(ds, st)
                                   ELSE ds,
                                   tag, cfg.consolidated, o)
             IN  [store |-> r.store, w |-> wr, exc |-> r.exc,
                  next |-> IF r.exc = "none" THEN "return" ELSE "raise"]

\* _write_dataset: one attempt of write_dataset
_write_dataset(st, wr, ds, tag, append_arg, o) ==
    LET append == IF append_arg = "None" THEN cfg.append ELSE TRUE
        e == _ensure_store(st, wr)
    IN  IF e.exc # "none"
        THEN [store |-> e.store, w |-> e.w, exc |-> e.exc, next |-> "raise",
              removed |-> e.removed, path |-> "ensure"]
        ELSE LET r == IF ~append \/ ~e.w.output_path_exists
                      THEN _create_dataset(e.store, e.w, ds, tag, o)
                      ELSE _append_dataset(e.store, e.w, ds, tag, o)
             IN  [store |-> r.store, w |-> r.w, exc |-> r.exc,
                  next |-> r.next, removed |-> e.removed,
                  path |-> IF ~append \/ ~e.w.output_path_exists
                           THEN "create" ELSE "append"]

\* _finalize_dataset: one attempt of finalize_dataset
_finalize_dataset(st, wr, o) ==
    LET metadata_update == cfg.adjust_metadata \/ cfg.metadata
        e1 == IF cfg.adjust_metadata THEN _ensure_store(st, wr)
              ELSE [store |-> st, w |-> wr, exc |-> "none", removed |-> FALSE]
        e2 == IF ~cfg.dry_run /\ (metadata_update \/ cfg.consolidated)
              THEN _ensure_store(e1.store, e1.w)
              ELSE [store |-> e1.store, w |-> e1.w, exc |-> "none",
                    removed |-> FALSE]
        removed == e1.removed \/ e2.removed
        updated == IF metadata_update
                   THEN [e2.store EXCEPT !.exists = TRUE, !.attrs = 1]
                   ELSE e2.store
        consolidate == cfg.consolidated
                       \/ (metadata_update /\ updated.zmeta # <<>>)
        result(st1, wr1, exc) ==
            [store |-> st1, w |-> wr1, exc |-> exc, removed |-> removed]
    IN  IF e1.exc # "none" THEN result(e1.store, e1.w, e1.exc)
        ELSE IF cfg.adjust_metadata /\ ~e1.store.exists
        THEN result(e1.store, e1.w, "FileNotFoundError")
        ELSE IF cfg.adjust_metadata /\ o = "before"
        THEN result(e1.store, e1.w, "IOError")
        ELSE IF cfg.dry_run THEN result(e1.store, e1.w, "none")
        ELSE IF e2.exc # "none" THEN result(e2.store, e2.w, e2.exc)
        ELSE IF (metadata_update \/ cfg.consolidated) /\ o = "before"
        THEN result(e2.store, e2.w, "IOError")
        ELSE IF ~consolidate THEN result(updated, e2.w, "none")
        ELSE IF o \in {"mid", "after"}
        THEN result(updated, e2.w, "IOError")
        ELSE IF ~updated.exists
        THEN result([updated EXCEPT !.exists = TRUE,
                                    !.zmeta = Snapshot(updated)],
                    e2.w, "GroupNotFoundError")
        ELSE result([updated EXCEPT !.zmeta = Snapshot(updated)],
                    e2.w, "none")

\* ---- calls, attempts and the retry loop -------------------------------------

NoCall == [op |-> "none", ds |-> <<>>, tag |-> 0, append |-> "None",
           tries |-> 0, i |-> 0]

NoStep == [op |-> "none", mode |-> "none", idx |-> -1, val |-> -1,
           before |-> NoStore, exc |-> "none"]

\* no Converter is being constructed
NoConv == [kwargs |-> <<>>, state |-> "none", exc |-> "none",
           input_concat_dim |-> "None", output_append_dim |-> "None",
           writer_append_mode |-> "None"]

NoFind == [store |-> NoStore, target_value |-> 0, epsilon |-> Epsilon,
           result |-> <<>>]

\* no batch job has been submitted
NoJob == <<>>

\* process_dataset is not being called
NoProc == [state |-> "none"]

\* no command line is being evaluated
NoCli == [state |-> "none"]

\* preprocess_dataset is not being called
NoPrep == [state |-> "none"]

\* nc2zarr-batch is not running
NoBatch == [state |-> "none"]

\* no finalizer run on detailed attributes is in play
NoMeta == [state |-> "none"]

\* resolve_input_paths is not being called
NoRes == [state |-> "none"]

Datasets == SeqsBetween(Coords, 1, MaxDsLen)

ExistingStore(t, consolidated) ==
    LET st == [exists |-> TRUE, t |-> t, v |-> Tags(Len(t), 0), s |-> 0,
               attrs |-> 0, zmeta |-> <<>>]
    IN  IF consolidated THEN [st EXCEPT !.zmeta = Snapshot(st)] ELSE st

InitialStores ==
    {NoStore} \cup
    {ExistingStore(t, z) : t \in SeqsBetween(Coords, 1, MaxInitLen),
                           z \in BOOLEAN}

\* the keyword arguments of DatasetWriter.__init__
Configs ==
    [overwrite : BOOLEAN, append : BOOLEAN,
     output_append_mode : APPEND_MODES,
     dry_run : BOOLEAN, tries : 1 .. MaxTries,
     consolidated : BOOLEAN, metadata : {FALSE},
     adjust_metadata : {FALSE}, finalize_only : {FALSE}]

\* Converter.__init__ rejects overwrite together with append, and _run
\* constructs its DatasetWriter without an append mode (the default, all)
ConverterConfigs ==
    {c \in Configs : /\ ~(c.overwrite /\ c.append)
                     /\ c.output_append_mode = "all"}

InitWriter(configs, stores) ==
    /\ cfg \in configs
    /\ store \in stores
    /\ w = [output_store |-> FALSE, output_path_exists |-> FALSE]
    /\ pc = "idle"
    /\ call = NoCall
    /\ ghost = [pre |-> store, store0 |-> store, attempts |-> 0,
                excs |-> <<>>, result |-> "none", raised |-> "none",
                hist |-> <<>>, faults |-> 0, writes |-> 0, removals |-> 0,
                removedAfterWrite |-> FALSE, last |-> NoStep]
    /\ fs = NoFind
    /\ conv = NoConv
    /\ job = NoJob
    /\ proc = NoProc
    /\ cli = NoCli
    /\ prep = NoPrep
    /\ batch = NoBatch
    /\ meta = NoMeta
    /\ res = NoRes

Init == InitWriter(Configs, InitialStores)

InitConverter == InitWriter(ConverterConfigs, InitialStores)

\* Retried with one attempt more than tries
Retried_OneMore(exc, st, wr, removed, step) ==
    /\ store' = st
    /\ w' = wr
    /\ call' = [call EXCEPT !.tries = call.tries - 1, !.i = 0]
    /\ pc' = IF call.tries = 0 THEN "done"
             ELSE IF call.op = "write" THEN "write" ELSE "final"
    /\ ghost' = [ghost EXCEPT
                   !.attempts = IF pc = "slices" THEN @ ELSE @ + 1,
                   !.excs = Append(@, exc),
                   !.result = IF call.tries = 0 THEN "raised" ELSE @,
                   !.raised = IF call.tries = 0 THEN exc ELSE @,
                   !.faults = IF exc = "IOError" THEN @ + 1 ELSE @,
                   !.removals = IF removed THEN @ + 1 ELSE @,
                   !.removedAfterWrite = @ \/ (removed /\ ghost.hist # <<>>),
                   !.last = step]

\* retry.api.retry_call: what follows an attempt that raised exc
Retried(exc, st, wr, removed, step) ==
    /\ store' = st
    /\ w' = wr
    /\ call' = [call EXCEPT !.tries = call.tries - 1, !.i = 0]
    /\ pc' = IF call.tries - 1 = 0 THEN "done"
             ELSE IF call.op = "write" THEN "write" ELSE "final"
    /\ ghost' = [ghost EXCEPT
                   !.attempts = IF pc = "slices" THEN @ ELSE @ + 1,
                   !.excs = Append(@, exc),
                   !.result = IF call.tries - 1 = 0 THEN "raised" ELSE @,
                   !.raised = IF call.tries - 1 = 0 THEN exc ELSE @,
                   !.faults = IF exc = "IOError" THEN @ + 1 ELSE @,
                   !.removals = IF removed THEN @ + 1 ELSE @,
                   !.removedAfterWrite = @ \/ (removed /\ ghost.hist # <<>>),
                   !.last = step]

\* the attempt returned: the call returns to its caller
Returned(st, wr, removed, step) ==
    /\ store' = st
    /\ w' = wr
    /\ call' = call
    /\ pc' = IF call.op = "write" THEN "idle" ELSE "done"
    /\ ghost' = [ghost EXCEPT
                   !.attempts = IF pc = "slices" THEN @ ELSE @ + 1,
                   !.excs = Append(@, "none"),
                   !.result = "returned",
                   !.hist = IF call.op = "write" THEN Append(@, call.ds) ELSE @,
                   !.removals = IF removed THEN @ + 1 ELSE @,
                   !.removedAfterWrite = @ \/ (removed /\ ghost.hist # <<>>),
                   !.last = step]

FaultAllowed(o) == o = "ok" \/ ghost.faults < MaxFaults

\* DatasetWriter.write_dataset up to the retry loop
write_dataset(ds, append_arg) ==
    /\ pc = "idle"
    /\ IF cfg.finalize_only
       THEN /\ pc' = "done"
            /\ call' = [NoCall EXCEPT !.op = "write", !.ds = ds]
            /\ ghost' = [ghost EXCEPT !.pre = store, !.attempts = 0,
                                      !.excs = <<>>,
                                      !.result = "raised",
                                      !.raised = "RuntimeError",
                                      !.writes = @ + 1, !.last = NoStep]
       ELSE /\ pc' = "write"
            /\ call' = [op |-> "write", ds |-> ds, tag |-> ghost.writes + 1,
                        append |-> append_arg, tries |-> cfg.tries, i |-> 0]
            /\ ghost' = [ghost EXCEPT !.pre = store, !.attempts = 0,
                                      !.excs = <<>>, !.result = "none",
                                      !.raised = "none", !.writes = @ + 1,
                                      !.last = NoStep]
    /\ UNCHANGED <<cfg, store, w, fs, conv, job, proc, cli,
                 prep, batch, meta, res>>

\* DatasetWriter.finalize_dataset up to the retry loop
finalize_dataset ==
    /\ pc = "idle"
    /\ pc' = "final"
    /\ call' = [NoCall EXCEPT !.op = "finalize", !.tries = cfg.tries]
    /\ ghost' = [ghost EXCEPT !.pre = store, !.attempts = 0,
                              !.excs = <<>>, !.result = "none",
                              !.raised = "none", !.last = NoStep]
    /\ UNCHANGED <<cfg, store, w, fs, conv, job, proc, cli,
                 prep, batch, meta, res>>

\* a client of the DatasetWriter (as the tests are) writes a dataset
WriteDataset(ds) ==
    /\ ghost.writes < MaxWriterWrites
    /\ write_dataset(ds, "None")

\* a client of the DatasetWriter finalizes
FinalizeDataset == finalize_dataset

\* Converter._run, one iteration of the loop over opener.open_datasets():
\* append is None for the first dataset and True afterwards
ConverterWrite(ds) ==
    /\ ~cfg.finalize_only
    /\ ghost.writes < MaxWrites
    /\ write_dataset(ds, IF ghost.writes = 0 THEN "None" ELSE "True")

\* Converter._run after the loop (at least one input was given), or at once
\* when finalize_only is set
ConverterFinalize ==
    /\ ghost.writes > 0 \/ cfg.finalize_only
    /\ finalize_dataset

\* one attempt of _write_dataset under retry_call, up to the slice loop
WriteAttempt(o) ==
    /\ pc = "write"
    /\ FaultAllowed(o)
    /\ LET r == _write_dataset(store, w, call.ds, call.tag, call.append, o)
           step == [NoStep EXCEPT !.op = r.path, !.before = store,
                                  !.exc = r.exc]
       IN
        IF r.next = "raise" THEN Retried(r.exc, r.store, r.w, r.removed, step)
        ELSE IF r.next = "return" THEN Returned(r.store, r.w, r.removed, step)
        ELSE /\ store' = r.store
             /\ w' = r.w
             /\ pc' = "slices"
             /\ call' = [call EXCEPT !.i = 0]
             /\ ghost' = [ghost EXCEPT
                            !.attempts = @ + 1,
                            !.removals = IF r.removed THEN @ + 1 ELSE @,
                            !.last = step]
    /\ UNCHANGED <<cfg, fs, conv, job, proc, cli,
                 prep, batch, meta, res>>

\* AppendWithInsertionsStep that never looks at the append mode: a located
\* replace always keeps the existing slice
AppendWithInsertionsStep_AlwaysRetain(st, ds, i, tag, o) ==
    LET found        == find_slice(st, ds[i + 1], Epsilon)
        insert_index == found[1]
        update_mode  == found[2]
    IN  IF update_mode = "append"
        THEN append_slice(st, ds[i + 1], tag, o)
        ELSE IF update_mode = "insert"
        THEN update_slice(st, insert_index, ds[i + 1], tag, update_mode, o)
        ELSE IF update_mode = "replace"
        THEN [store |-> st, exc |-> "none"]
        ELSE [store |-> st, exc |-> "NotImplementedError"]

\* AppendWithInsertionsStep that never looks at the append mode: a located
\* replace always overwrites the existing slice
AppendWithInsertionsStep_AlwaysReplace(st, ds, i, tag, o) ==
    LET found        == find_slice(st, ds[i + 1], Epsilon)
        insert_index == found[1]
        update_mode  == found[2]
    IN  IF update_mode = "append"
        THEN append_slice(st, ds[i + 1], tag, o)
        ELSE IF update_mode = "insert"
        THEN update_slice(st, insert_index, ds[i + 1], tag, update_mode, o)
        ELSE IF update_mode = "replace"
        THEN update_slice(st, insert_index, ds[i + 1], tag, update_mode, o)
        ELSE [store |-> st, exc |-> "NotImplementedError"]

\* the body of the loop of _append_with_insertions for the slice at index i
AppendWithInsertionsStep(st, ds, i, tag, o) ==
    LET found        == find_slice(st, ds[i + 1], Epsilon)
        insert_index == found[1]
        update_mode  == found[2]
    IN  IF update_mode = "append"
        THEN append_slice(st, ds[i + 1], tag, o)
        ELSE IF update_mode = "insert"
        THEN update_slice(st, insert_index, ds[i + 1], tag, update_mode, o)
        ELSE IF update_mode = "replace"
        THEN IF cfg.output_append_mode = "replace"
             THEN update_slice(st, insert_index, ds[i + 1], tag, update_mode, o)
             ELSE [store |-> st, exc |-> "none"]
        ELSE [store |-> st, exc |-> "NotImplementedError"]

\* one iteration of the loop of _append_with_insertions; after the last
\* slice _write_dataset returns
SliceStep(o) ==
    /\ pc = "slices"
    /\ FaultAllowed(o)
    /\ LET r == AppendWithInsertionsStep(store, call.ds, call.i, call.tag, o)
           found == find_slice(store, call.ds[call.i + 1], Epsilon)
           step == [op |-> "slice", mode |-> found[2], idx |-> found[1],
                    val |-> call.ds[call.i + 1], before |-> store,
                    exc |-> r.exc]
       IN
        IF r.exc # "none" THEN Retried(r.exc, r.store, w, FALSE, step)
        ELSE IF call.i + 1 = Len(call.ds)
        THEN Returned(r.store, w, FALSE, step)
        ELSE /\ store' = r.store
             /\ call' = [call EXCEPT !.i = call.i + 1]
             /\ ghost' = [ghost EXCEPT !.last = step]
             /\ UNCHANGED <<w, pc>>
    /\ UNCHANGED <<cfg, fs, conv, job, proc, cli,
                 prep, batch, meta, res>>

\* one attempt of _finalize_dataset under retry_call
FinalizeAttempt(o) ==
    /\ pc = "final"
    /\ FaultAllowed(o)
    /\ LET r == _finalize_dataset(store, w, o)
           step == [NoStep EXCEPT !.op = "finalize", !.before = store,
                                  !.exc = r.exc]
       IN
        IF r.exc # "none" THEN Retried(r.exc, r.store, r.w, r.removed, step)
        ELSE Returned(r.store, r.w, r.removed, step)
    /\ UNCHANGED <<cfg, fs, conv, job, proc, cli,
                 prep, batch, meta, res>>

Next ==
    \/ \E ds \in Datasets : WriteDataset(ds)
    \/ \E o \in Outcomes : WriteAttempt(o)
    \/ \E o \in Outcomes : SliceStep(o)
    \/ FinalizeDataset
    \/ \E o \in Outcomes : FinalizeAttempt(o)

Spec == Init /\ [][Next]_vars

NextConverter ==
    \/ \E ds \in Datasets : ConverterWrite(ds)
    \/ \E o \in Outcomes : WriteAttempt(o)
    \/ ConverterFinalize
    \/ \E o \in Outcomes : FinalizeAttempt(o)

SpecConverter == InitConverter /\ [][NextConverter]_vars

\* ---- the slice loop over a wider range of coordinates -------------------------

SliceCoords == 0 .. MaxSliceCoord

IsSorted(t) == \A k \in 1 .. Len(t) - 1 : t[k] <= t[k + 1]

\* the configurations under which _append_dataset reaches
\* _append_with_insertions
SliceConfigs ==
    {c \in Configs : /\ c.append /\ ~c.overwrite
                     /\ c.output_append_mode \in {"replace", "retain"}}

\* existing stores that pass the writer's check of the existing coordinates
SliceStores ==
    {ExistingStore(t, z) :
        t \in {u \in SeqsBetween(SliceCoords, 1, MaxSliceInitLen) : IsSorted(u)},
        z \in BOOLEAN}

SliceDatasets == SeqsBetween(SliceCoords, 1, MaxDsLen)

InitSlices == InitWriter(SliceConfigs, SliceStores)

\* a client of the DatasetWriter writes a dataset to an existing store
WriteSlices(ds) ==
    /\ ghost.writes < MaxWriterWrites
    /\ write_dataset(ds, "None")

NextSlices ==
    \/ \E ds \in SliceDatasets : WriteSlices(ds)
    \/ \E o \in Outcomes : WriteAttempt(o)
    \/ \E o \in Outcomes : SliceStep(o)
    \/ FinalizeDataset
    \/ \E o \in Outcomes : FinalizeAttempt(o)

SpecSlices == InitSlices /\ [][NextSlices]_vars

\* ---- Converter.run over a given list of inputs ---------------------------------

\* the keyword arguments of DatasetWriter.__init__, the finalizer's included
AllConfigs ==
    [overwrite : BOOLEAN, append : BOOLEAN,
     output_append_mode : APPEND_MODES,
     dry_run : BOOLEAN, tries : 1 .. MaxTries,
     consolidated : BOOLEAN, metadata : BOOLEAN,
     adjust_metadata : BOOLEAN, finalize_only : BOOLEAN]

RunDatasets == SeqsBetween(Coords, 1, MaxRunDsLen)

\* the datasets the opener yields, in the order of the resolved input paths
RunInputs == SeqsBetween(RunDatasets, 1, MaxRunInputs)

\* a Converter: the arguments it hands to its DatasetWriter (never an append
\* mode) and its inputs
RunConfigs ==
    {c @@ [inputs |-> i] :
        c \in {d \in AllConfigs : /\ ~(d.overwrite /\ d.append)
                                  /\ d.output_append_mode = "all"},
        i \in RunInputs}

InitRun == InitWriter(RunConfigs, InitialStores)

\* RunWrite that passes no append argument to any write
RunWrite_NeverAppend ==
    /\ ~cfg.finalize_only
    /\ ghost.writes < Len(cfg.inputs)
    /\ write_dataset(cfg.inputs[ghost.writes + 1], "None")

\* Converter._run, one iteration of the loop over opener.open_datasets(): the
\* next input is opened, processed and written; append is None for the first
\* dataset and True afterwards
RunWrite ==
    /\ ~cfg.finalize_only
    /\ ghost.writes < Len(cfg.inputs)
    /\ write_dataset(cfg.inputs[ghost.writes + 1],
                     IF ghost.writes = 0 THEN "None" ELSE "True")

\* Converter._run after the loop, or at once when finalize_only is set
RunFinalize ==
    /\ cfg.finalize_only \/ ghost.writes = Len(cfg.inputs)
    /\ finalize_dataset

NextRun ==
    \/ RunWrite
    \/ \E o \in Outcomes : WriteAttempt(o)
    \/ RunFinalize
    \/ \E o \in Outcomes : FinalizeAttempt(o)

SpecRun == InitRun /\ [][NextRun]_vars

\* ---- a DatasetWriter in a dry run ------------------------------------------------

\* every DatasetWriter configuration with dry_run set
DryRunConfigs == {c \in AllConfigs : c.dry_run}

InitDryRun == InitWriter(DryRunConfigs, InitialStores)

\* a client of the DatasetWriter writes a dataset, with or without the
\* append argument
DryRunWrite(ds, append_arg) ==
    /\ ghost.writes < MaxWrites
    /\ write_dataset(ds, append_arg)

\* in a dry run _append_dataset returns before _append_with_insertions, so
\* the slice loop is never entered
NextDryRun ==
    \/ \E ds \in RunDatasets, a \in {"None", "True"} : DryRunWrite(ds, a)
    \/ \E o \in Outcomes : WriteAttempt(o)
    \/ FinalizeDataset
    \/ \E o \in Outcomes : FinalizeAttempt(o)

SpecDryRun == InitDryRun /\ [][NextDryRun]_vars

\* ---- Converter.__init__ ----------------------------------------------------------

DEFAULT_OUTPUT_APPEND_DIM_NAME == "time"

\* dimension names a configuration may give; "None" is Python's None
DimNames == {"None", "time", "x"}

\* the keyword parameters of Converter.__init__ that the model draws
ConverterParams ==
    {"input_paths", "input_multi_file", "input_concat_dim",
     "output_overwrite", "output_append", "output_append_dim"}

\* keyword arguments of a construction; output_append_mode is either not
\* passed at all or passed with one of the five modes or another string
ConverterKwargs ==
    UNION {
        {k @@ m :
            k \in [input_paths : {<<>>, <<"a.nc">>},
                   input_multi_file : BOOLEAN,
                   input_concat_dim : DimNames,
                   output_overwrite : BOOLEAN,
                   output_append : BOOLEAN,
                   output_append_dim : DimNames]}
        : m \in {<<>>} \cup
                [output_append_mode : APPEND_MODES \cup {"invalid value"}]}

\* Python's `a or b` on dimension names
OrElse(a, b) == IF a = "None" THEN b ELSE a

\* Converter.__init__ followed by the DatasetWriter(...) call of _run
Converter__init__(kwargs) ==
    LET input_concat_dim ==
            IF kwargs.input_multi_file /\ kwargs.input_concat_dim = "None"
            THEN OrElse(kwargs.output_append_dim, DEFAULT_OUTPUT_APPEND_DIM_NAME)
            ELSE kwargs.input_concat_dim
        output_append_dim ==
            OrElse(input_concat_dim, DEFAULT_OUTPUT_APPEND_DIM_NAME)
        failed(exc) == [NoConv EXCEPT !.kwargs = kwargs, !.state = "failed",
                                      !.exc = exc]
    IN  IF ~(DOMAIN kwargs \subseteq ConverterParams)
        THEN failed("TypeError")
        ELSE IF kwargs.input_paths = <<>>
        THEN failed("ConverterError")
        ELSE IF kwargs.output_overwrite /\ kwargs.output_append
        THEN failed("ConverterError")
        ELSE [kwargs |-> kwargs, state |-> "constructed", exc |-> "none",
              input_concat_dim |-> input_concat_dim,
              output_append_dim |-> output_append_dim,
              writer_append_mode |-> "all"]

InitConstruct ==
    /\ cfg \in {c \in Configs : /\ ~c.overwrite /\ ~c.append /\ ~c.dry_run
                                /\ ~c.consolidated /\ c.tries = 1
                                /\ c.output_append_mode = "all"}
    /\ store \in InitialStores
    /\ w = [output_store |-> FALSE, output_path_exists |-> FALSE]
    /\ pc = "idle"
    /\ call = NoCall
    /\ ghost = [pre |-> store, store0 |-> store, attempts |-> 0,
                excs |-> <<>>, result |-> "none", raised |-> "none",
                hist |-> <<>>, faults |-> 0, writes |-> 0, removals |-> 0,
                removedAfterWrite |-> FALSE, last |-> NoStep]
    /\ fs = NoFind
    /\ conv \in {[NoConv EXCEPT !.kwargs = k, !.state = "new"] :
                    k \in ConverterKwargs}
    /\ job = NoJob
    /\ proc = NoProc
    /\ cli = NoCli
    /\ prep = NoPrep
    /\ batch = NoBatch
    /\ meta = NoMeta
    /\ res = NoRes

\* Converter(**kwargs) is evaluated
Construct ==
    /\ conv.state = "new"
    /\ conv' = Converter__init__(conv.kwargs)
    /\ UNCHANGED <<cfg, store, w, pc, call, ghost, fs, job, proc, cli,
                 prep, batch, meta, res>>

NextConstruct == Construct

SpecConstruct == InitConstruct /\ [][NextConstruct]_vars

\* ---- observed batch jobs (nc2zarr/batch.py) ------------------------------------

\* the jobs of one batch: all of one job class, each with its own observer
\* thread
JobIds == 1 .. MaxJobs

\* the status ids squeue reports that SlurmJob maps to a status
_STATUS_MAPPING ==
    [PD |-> "Pending", R |-> "Running", CG |-> "Completing",
     CD |-> "Completed", F |-> "Failed", TO |-> "Terminated",
     S |-> "Suspended", ST |-> "Stopped"]

\* what a squeue call can give SlurmJob._poll: a table row whose ST column
\* holds a mapped id or something else ("??"), no parseable table ("None"),
\* or no answer within the timeout
SlurmPolls == DOMAIN _STATUS_MAPPING \cup {"??", "None", "TimeoutExpired"}

\* SlurmJob.status, from the job's _state
SlurmJob_status(state) ==
    IF state = "None" THEN "Unknown"
    ELSE IF state \in DOMAIN _STATUS_MAPPING THEN _STATUS_MAPPING[state]
    ELSE "Unknown"

\* LocalJob.status, from the job's _state: a dict with pid and, once seen,
\* exit_code; state.get on None raises
LocalJob_status(state) ==
    IF state = "None" THEN "AttributeError"
    ELSE IF state = "pid" THEN "Running"
    ELSE IF state = "exit0" THEN "Completed"
    ELSE "Failed"

status(j) ==
    IF j.kind = "slurm" THEN SlurmJob_status(j.state)
    ELSE LocalJob_status(j.state)

\* BatchJob.done: None, True or False
done(j) ==
    IF status(j) = "AttributeError" THEN "AttributeError"
    ELSE IF status(j) = "Unknown" THEN "None"
    ELSE IF status(j) \in {"Completed", "Failed", "Terminated"} THEN "True"
    ELSE "False"

_should_observation_end(j) ==
    IF j.kind = "slurm"
    THEN status(j) \in {"Completed", "Failed", "Terminated", "Stopped"}
    ELSE status(j) # "Running"

\* LocalJob._poll: Popen.poll() of the child process
LocalJob__poll(j) ==
    IF j.process = "running" THEN "pid" ELSE j.process

\* the values _poll can return or raise for a job
_poll(j) ==
    IF j.kind = "slurm" THEN SlurmPolls ELSE {LocalJob__poll(j)}

\* end_observation; LocalJob's also closes its stdout and stderr files
end_observation(j) ==
    [j EXCEPT !.observing = FALSE,
              !.files = IF j.kind = "local" THEN "closed" ELSE @]

\* a job as its constructor leaves it: observation started, nothing polled
NewJob(kind) ==
    [kind |-> kind, observing |-> TRUE, state |-> "None",
     num_null_polls |-> 0, thread |-> "running",
     process |-> IF kind = "local" THEN "running" ELSE "none",
     files |-> IF kind = "local" THEN "open" ELSE "none",
     nulls |-> 0, polled |-> "none"]

\* one pass of the loop of _observe with the poll result r; the fields
\* nulls and polled record the polls themselves: how many in a row gave
\* None, and what the last one gave
ObserveStep(j, r) ==
    IF ~j.observing THEN [j EXCEPT !.thread = "finished"]
    ELSE IF r = "TimeoutExpired"
    THEN [j EXCEPT !.thread = "died", !.polled = r]
    ELSE IF r = "None"
    THEN LET p == [j EXCEPT !.nulls = @ + 1, !.polled = r]
         IN  IF j.num_null_polls = 3
             THEN [end_observation(p) EXCEPT !.thread = "finished"]
             ELSE [p EXCEPT !.num_null_polls = @ + 1]
    ELSE LET p == [j EXCEPT !.state = r, !.nulls = 0, !.polled = r]
         IN  IF _should_observation_end(p)
             THEN [end_observation(p) EXCEPT !.thread = "finished"]
             ELSE [p EXCEPT !.num_null_polls = 0]

InitJobs ==
    /\ cfg \in {c \in Configs : /\ ~c.overwrite /\ ~c.append /\ ~c.dry_run
                                /\ ~c.consolidated /\ c.tries = 1
                                /\ c.output_append_mode = "all"}
    /\ store = NoStore
    /\ w = [output_store |-> FALSE, output_path_exists |-> FALSE]
    /\ pc = "idle"
    /\ call = NoCall
    /\ ghost = [pre |-> store, store0 |-> store, attempts |-> 0,
                excs |-> <<>>, result |-> "none", raised |-> "none",
                hist |-> <<>>, faults |-> 0, writes |-> 0, removals |-> 0,
                removedAfterWrite |-> FALSE, last |-> NoStep]
    /\ fs = NoFind
    /\ conv = NoConv
    /\ job \in {[i \in JobIds |-> NewJob(kind)] : kind \in {"slurm", "local"}}
    /\ proc = NoProc
    /\ cli = NoCli
    /\ prep = NoPrep
    /\ batch = NoBatch
    /\ meta = NoMeta
    /\ res = NoRes

\* the observer thread of job i runs one pass of its loop
Observe(i) ==
    /\ job[i].thread = "running"
    /\ \E r \in _poll(job[i]) :
          job' = [job EXCEPT ![i] = ObserveStep(job[i], r)]
    /\ UNCHANGED <<cfg, store, w, pc, call, ghost, fs, conv, proc, cli,
                 prep, batch, meta, res>>

\* the child process of local job i exits
ProcessExit(i) ==
    /\ job[i].kind = "local"
    /\ job[i].process = "running"
    /\ \E code \in {"exit0", "exit1"} :
          job' = [job EXCEPT ![i].process = code]
    /\ UNCHANGED <<cfg, store, w, pc, call, ghost, fs, conv, proc, cli,
                 prep, batch, meta, res>>

NextJobs == \E i \in JobIds : Observe(i) \/ ProcessExit(i)

\* every observer thread keeps being scheduled (it sleeps poll_period between
\* passes and nothing else blocks it)
SpecJobs ==
    InitJobs /\ [][NextJobs]_vars /\ \A i \in JobIds : WF_vars(Observe(i))

\* ---- the wait loop of nc2zarr-batch (nc2zarr/cli.py) ----------------------------

\* all([job.done for job in jobs]): None and False are both falsy
AllDone(jobs) == \A i \in DOMAIN jobs : done(jobs[i]) = "True"

\* one pass of the loop: the status of every job is printed, which raises
\* what the status property raises; the loop is left when every job is done
WaitLoopPass(jobs) ==
    IF \E i \in DOMAIN jobs : status(jobs[i]) = "AttributeError"
    THEN [state |-> "raised", exc |-> "AttributeError"]
    ELSE IF AllDone(jobs) THEN [state |-> "exited", exc |-> "none"]
    ELSE [state |-> "waiting", exc |-> "none"]

InitBatch ==
    /\ cfg \in {c \in Configs : /\ ~c.overwrite /\ ~c.append /\ ~c.dry_run
                                /\ ~c.consolidated /\ c.tries = 1
                                /\ c.output_append_mode = "all"}
    /\ store = NoStore
    /\ w = [output_store |-> FALSE, output_path_exists |-> FALSE]
    /\ pc = "idle"
    /\ call = NoCall
    /\ ghost = [pre |-> store, store0 |-> store, attempts |-> 0,
                excs |-> <<>>, result |-> "none", raised |-> "none",
                hist |-> <<>>, faults |-> 0, writes |-> 0, removals |-> 0,
                removedAfterWrite |-> FALSE, last |-> NoStep]
    /\ fs = NoFind
    /\ conv = NoConv
    /\ job \in {[i \in JobIds |-> NewJob(kind)] : kind \in {"slurm", "local"}}
    /\ proc = NoProc
    /\ cli = NoCli
    /\ prep = NoPrep
    /\ batch = [state |-> "waiting", exc |-> "none"]
    /\ meta = NoMeta
    /\ res = NoRes

\* the main thread of nc2zarr-batch runs one pass of its wait loop
WaitLoop ==
    /\ batch.state = "waiting"
    /\ batch' = WaitLoopPass(job)
    /\ UNCHANGED <<cfg, store, w, pc, call, ghost, fs, conv, job, proc, cli,
                   prep, meta, res>>

NextBatch ==
    \/ \E i \in JobIds : Observe(i)
    \/ \E i \in JobIds : ProcessExit(i)
    \/ WaitLoop

\* the observer threads and the main thread keep being scheduled: each
\* sleeps between passes and nothing else blocks it
SpecBatch ==
    /\ InitBatch
    /\ [][NextBatch]_vars
    /\ \A i \in JobIds : WF_vars(Observe(i))
    /\ WF_vars(WaitLoop)

\* ---- process_dataset (nc2zarr/processor.py) -------------------------------------

\* a Python dict as a function; d.update(e) and d.get(k, default)
DictUpdate(d, e) ==
    [k \in DOMAIN d \cup DOMAIN e |-> IF k \in DOMAIN e THEN e[k] ELSE d[k]]

DictGet(d, k, default) == IF k \in DOMAIN d THEN d[k] ELSE default

\* all dicts with keys among keys and values among vals
Dicts(keys, vals) == UNION {[ks -> vals] : ks \in SUBSET keys}

\* a variable of the dataset: its dimensions (none, or "x" of size 4) and its
\* dask chunks along x (<<>> when v.chunks is None)
VarShapes ==
    {[dims |-> <<>>, size |-> 0, chunks |-> <<>>]} \cup
    {[dims |-> <<"x">>, size |-> 4, chunks |-> c] : c \in {<<>>, <<2, 2>>, <<4>>}}

ProcDatasets == Dicts({"a", "b"}, VarShapes)

\* chunk sizes a rechunk rule can name: None, 'input', an integer, or
\* something else (a list)
ChunkRules ==
    {[t |-> "None"], [t |-> "input"], [t |-> "int", n |-> 2], [t |-> "list"]}

\* process_rechunk: None, or a dict with a default dim -> chunk size dict
\* under '*' and per-variable overrides (a chunk size or a dim -> size dict)
ProcessRechunks ==
    {[t |-> "None"]} \cup
    {[t |-> "dict", d |-> star @@ over] :
        star \in Dicts({"*"}, {[t |-> "dict", d |-> d] :
                                  d \in Dicts({"x"}, ChunkRules)}),
        over \in Dicts({"a"}, {[t |-> "None"], [t |-> "input"],
                               [t |-> "int", n |-> 2],
                               [t |-> "dict", d |-> <<>>],
                               [t |-> "dict", d |-> [x |-> [t |-> "int", n |-> 2]]]})}

\* output_encoding: None, or per variable a dict of encoding keys
OutputEncodings ==
    {[t |-> "None"]} \cup
    {[t |-> "dict", d |-> e] :
        e \in Dicts({"a", "c"}, {[chunks |-> <<9>>], [compressor |-> "None"],
                                 [chunks |-> <<9>>, compressor |-> "None"]})}

\* process_rename: None, or {'b': 'c'}
ProcessRenames == {[t |-> "None"], [t |-> "dict", d |-> [b |-> "c"]]}

RangeOf(f) == {f[k] : k \in DOMAIN f}

\* xarray.Dataset.rename(name_dict): fails for a name the dataset lacks
Rename(ds, names) ==
    IF ~(DOMAIN names \subseteq DOMAIN ds) THEN [exc |-> "ValueError"]
    ELSE [ds |-> [k \in (DOMAIN ds \ DOMAIN names) \cup RangeOf(names) |->
                     IF k \in DOMAIN ds \ DOMAIN names THEN ds[k]
                     ELSE ds[CHOOSE o \in DOMAIN names : names[o] = k]]]

SeqMax(q) == CHOOSE m \in RangeOf(q) : \A n \in RangeOf(q) : n <= m

\* the chunk sizes _rechunk_dataset resolves for the variable var_name of
\* shape v: a tuple, or the exception raised
Chunks(v, var_name, process_rechunk) ==
    LET all_dim_chunk_sizes == DictGet(process_rechunk, "*",
                                       [t |-> "dict", d |-> <<>>]).d
        dims == RangeOf(v.dims)
        u == process_rechunk[var_name]
        dim_chunk_sizes_update ==
            IF var_name \notin DOMAIN process_rechunk THEN <<>>
            ELSE IF u.t = "dict"
            THEN [dim \in dims |-> DictGet(u.d, dim, [t |-> "None"])]
            ELSE [dim \in dims |-> u]
        dim_chunk_sizes == DictUpdate(all_dim_chunk_sizes, dim_chunk_sizes_update)
        Size(dim) ==
            LET r == DictGet(dim_chunk_sizes, dim, [t |-> "input"])
            IN  IF r.t = "input"
                THEN IF v.chunks # <<>>
                     THEN IF Len(v.chunks) = 1 THEN [exc |-> "TypeError"]
                          ELSE [chunks |-> <<SeqMax(v.chunks)>>]
                     ELSE [chunks |-> <<v.size>>]
                ELSE IF r.t = "None" THEN [chunks |-> <<v.size>>]
                ELSE IF r.t = "int" THEN [chunks |-> <<r.n>>]
                ELSE [exc |-> "ValueError"]
    IN  IF v.dims = <<>> THEN [chunks |-> <<>>] ELSE Size(v.dims[1])

\* the encoding part of _rechunk_dataset's result, or the exception raised
_rechunk_dataset(ds, process_rechunk) ==
    LET c == [k \in DOMAIN ds |-> Chunks(ds[k], k, process_rechunk)]
        errs == {r \in RangeOf(c) : "exc" \in DOMAIN r}
    IN  IF errs # {} THEN CHOOSE e \in errs : TRUE
        ELSE [enc |-> [k \in {n \in DOMAIN ds : c[n].chunks # <<>>} |-> c[k]]]

\* _merge_encodings(ds, chunk_encoding, output_encoding): per variable of
\* ds, the first encoding's dict updated with the second's
_merge_encodings(ds, chunk_encoding, output_encoding) ==
    [k \in DOMAIN ds \cap (DOMAIN chunk_encoding \cup DOMAIN output_encoding) |->
        IF k \notin DOMAIN chunk_encoding THEN output_encoding[k]
        ELSE IF k \notin DOMAIN output_encoding THEN chunk_encoding[k]
        ELSE DictUpdate(chunk_encoding[k], output_encoding[k])]

\* process_dataset(ds) of a DatasetProcessor without custom processor: the
\* exception raised, or the chunk encoding and the returned encoding
process_dataset(p) ==
    LET renamed == IF p.process_rename.t = "None" THEN [ds |-> p.ds]
                   ELSE Rename(p.ds, p.process_rename.d)
        rechunked ==
            IF p.process_rechunk.t = "None" \/ p.process_rechunk.d = <<>>
            THEN [enc |-> <<>>]
            ELSE _rechunk_dataset(renamed.ds, p.process_rechunk.d)
        output_encoding ==
            IF p.output_encoding.t = "None" THEN <<>> ELSE p.output_encoding.d
    IN  IF "exc" \in DOMAIN renamed
        THEN [p EXCEPT !.state = "raised", !.exc = renamed.exc]
        ELSE IF "exc" \in DOMAIN rechunked
        THEN [p EXCEPT !.state = "raised", !.exc = rechunked.exc]
        ELSE [p EXCEPT !.state = "returned", !.new_ds = renamed.ds,
                       !.chunk_encoding = rechunked.enc,
                       !.encoding = _merge_encodings(renamed.ds, rechunked.enc,
                                                     output_encoding)]

InitProcess ==
    /\ cfg \in {c \in Configs : /\ ~c.overwrite /\ ~c.append /\ ~c.dry_run
                                /\ ~c.consolidated /\ c.tries = 1
                                /\ c.output_append_mode = "all"}
    /\ store = NoStore
    /\ w = [output_store |-> FALSE, output_path_exists |-> FALSE]
    /\ pc = "idle"
    /\ call = NoCall
    /\ ghost = [pre |-> store, store0 |-> store, attempts |-> 0,
                excs |-> <<>>, result |-> "none", raised |-> "none",
                hist |-> <<>>, faults |-> 0, writes |-> 0, removals |-> 0,
                removedAfterWrite |-> FALSE, last |-> NoStep]
    /\ fs = NoFind
    /\ conv = NoConv
    /\ job = NoJob
    /\ proc \in [state : {"new"}, exc : {"none"}, ds : ProcDatasets,
                 process_rename : ProcessRenames,
                 process_rechunk : ProcessRechunks,
                 output_encoding : OutputEncodings,
                 new_ds : {<<>>}, chunk_encoding : {<<>>}, encoding : {<<>>}]
    /\ cli = NoCli
    /\ prep = NoPrep
    /\ batch = NoBatch
    /\ meta = NoMeta
    /\ res = NoRes

\* processor.process_dataset(ds) is called
ProcessDataset ==
    /\ proc.state = "new"
    /\ proc' = process_dataset(proc)
    /\ UNCHANGED <<cfg, store, w, pc, call, ghost, fs, conv, job, cli,
                 prep, batch, meta, res>>

NextProcess == ProcessDataset

SpecProcess == InitProcess /\ [][NextProcess]_vars

\* ---- the command line and load_config (nc2zarr/cli.py, nc2zarr/config.py) --------

\* Python values: PyNone, bool, str, int, list, tuple and (nested) dict; a
\* configuration itself is a dict, modelled as a function from its keys
PyNone == [t |-> "None"]

PyBool(b) == [t |-> "bool", v |-> b]

PyStr(x) == [t |-> "str", v |-> x]

PyInt(n) == [t |-> "int", v |-> n]

PyList(q) == [t |-> "list", v |-> q]

PyTuple(q) == [t |-> "tuple", v |-> q]

PyDict(d) == [t |-> "dict", d |-> d]

\* the keyword names load_config sees, split at the prefix that
\* kwargs_to_config strips and config_to_kwargs puts back
KwargParts ==
    [input_paths |-> <<"input", "paths">>,
     input_decode_cf |-> <<"input", "decode_cf">>,
     input_multi_file |-> <<"input", "multi_file">>,
     input_concat_dim |-> <<"input", "concat_dim">>,
     input_sort_by |-> <<"input", "sort_by">>,
     output_path |-> <<"output", "path">>,
     output_overwrite |-> <<"output", "overwrite">>,
     output_append |-> <<"output", "append">>,
     output_adjust_metadata |-> <<"output", "adjust_metadata">>,
     output_consolidated |-> <<"output", "consolidated">>,
     finalize_only |-> <<"", "finalize_only">>,
     verbosity |-> <<"", "verbosity">>,
     dry_run |-> <<"", "dry_run">>]

\* the configurations the configuration files hold
InputSections ==
    {p @@ m @@ c :
        p \in Dicts({"paths"}, {PyList(<<"a.nc">>), PyList(<<"b.nc">>), PyStr("a.nc")}),
        m \in Dicts({"multi_file"}, {PyBool(FALSE)}),
        c \in Dicts({"concat_dim"}, {PyStr("t")})}

OutputSections ==
    {[consolidated |-> PyBool(TRUE)]}

FileConfigs ==
    {d @@ i @@ o :
        d \in Dicts({"dry_run"}, {PyBool(FALSE)}),
        i \in Dicts({"input"}, {PyDict(x) : x \in InputSections}),
        o \in Dicts({"output"}, {PyDict(x) : x \in OutputSections})}

\* what _load_config finds at a path: a configuration, an empty YAML file
\* or no file
ConfigFiles == {PyDict(c) : c \in FileConfigs} \cup {PyNone, [t |-> "missing"]}

\* the values click hands to nc2zarr(): flags are PyNone or True, the input
\* paths a tuple, verbose a count; the options left out here are not given
CliParams ==
    [input_paths : {<<>>, <<"c.nc">>},
     config_paths : SeqsBetween(ConfigFiles, 0, MaxConfigFiles),
     multi_file : {PyNone, PyBool(TRUE)},
     concat_dim : {PyNone, PyStr("time")},
     overwrite : {PyNone, PyBool(TRUE)},
     dry_run : {PyNone, PyBool(TRUE)},
     verbose : 0 .. 1,
     version : BOOLEAN]

\* the keyword arguments nc2zarr() passes to load_config
LoadConfigKwargs(params) ==
    [input_paths |-> IF params.input_paths # <<>>
                     THEN PyTuple(params.input_paths) ELSE PyNone,
     input_decode_cf |-> PyNone,
     input_multi_file |-> params.multi_file,
     input_concat_dim |-> params.concat_dim,
     input_sort_by |-> PyNone,
     output_path |-> PyNone,
     output_overwrite |-> params.overwrite,
     output_append |-> PyNone,
     output_adjust_metadata |-> PyNone,
     finalize_only |-> PyNone,
     verbosity |-> IF params.verbose # 0 THEN PyInt(params.verbose) ELSE PyNone,
     dry_run |-> params.dry_run]

\* the keys of kwargs that are not PyNone and belong to a section
SectionOf(kwargs, section) ==
    LET ks == {k \in DOMAIN kwargs :
                  kwargs[k] # PyNone /\ KwargParts[k][1] = section}
    IN  [n \in {KwargParts[k][2] : k \in ks} |->
            kwargs[CHOOSE k \in ks : KwargParts[k][2] = n]]

\* a one-entry dict, or no entry when the section is empty
IfNotEmpty(key, section) ==
    IF section = <<>> THEN <<>> ELSE [k \in {key} |-> PyDict(section)]

kwargs_to_config(kwargs) ==
    SectionOf(kwargs, "")
        @@ IfNotEmpty("input", SectionOf(kwargs, "input"))
        @@ IfNotEmpty("process", SectionOf(kwargs, "process"))
        @@ IfNotEmpty("output", SectionOf(kwargs, "output"))

\* the keyword name made of a section prefix and a key
KwargName(section, key) ==
    CHOOSE k \in DOMAIN KwargParts : KwargParts[k] = <<section, key>>

config_to_kwargs(config) ==
    LET Section(name) == IF name \in DOMAIN config THEN config[name].d ELSE <<>>
        Names(name) == {KwargName(name, k) : k \in DOMAIN Section(name)}
        top == DOMAIN config \ {"input", "process", "output"}
    IN  [k \in Names("input") \cup Names("process") \cup Names("output") \cup top |->
            IF k \in top THEN config[k]
            ELSE Section(KwargParts[k][1])[KwargParts[k][2]]]

RECURSIVE _merge_2_configs_ConcatSequences(_, _)
\* the mutation of _merge_2_configs that concatenates tuples like lists
_merge_2_configs_ConcatSequences(config_1, config_2) ==
    [k \in DOMAIN config_1 \cup DOMAIN config_2 |->
        IF k \notin DOMAIN config_2 THEN config_1[k]
        ELSE IF k \notin DOMAIN config_1 THEN config_2[k]
        ELSE LET v1 == config_1[k]
                 v2 == config_2[k]
             IN  IF v1.t = "dict" /\ v2.t = "dict"
                 THEN PyDict(_merge_2_configs_ConcatSequences(v1.d, v2.d))
                 ELSE IF v1.t \in {"list", "tuple"} /\ v2.t \in {"list", "tuple"}
                 THEN PyList(v1.v \o v2.v)
                 ELSE v2]

RECURSIVE _merge_2_configs(_, _)
\* _merge_2_configs: dicts merge recursively, a list is extended by a list,
\* anything else is replaced by the later value
_merge_2_configs(config_1, config_2) ==
    [k \in DOMAIN config_1 \cup DOMAIN config_2 |->
        IF k \notin DOMAIN config_2 THEN config_1[k]
        ELSE IF k \notin DOMAIN config_1 THEN config_2[k]
        ELSE LET v1 == config_1[k]
                 v2 == config_2[k]
             IN  IF v1.t = "dict" /\ v2.t = "dict"
                 THEN PyDict(_merge_2_configs(v1.d, v2.d))
                 ELSE IF v1.t = "list" /\ v2.t = "list"
                 THEN PyList(v1.v \o v2.v)
                 ELSE v2]

RECURSIVE _merge_configs(_)
\* _merge_configs: the configurations merged from left to right
_merge_configs(configs) ==
    IF configs = <<>> THEN <<>>
    ELSE _merge_2_configs(_merge_configs(SubSeq(configs, 1, Len(configs) - 1)),
                          configs[Len(configs)])

\* load_config(config_paths, return_kwargs=True, **kwargs): the keyword
\* arguments for the Converter, or the exception raised
load_config(config_paths, kwargs) ==
    IF config_paths = <<>> THEN [kwargs |-> kwargs]
    ELSE IF \E i \in DOMAIN config_paths : config_paths[i].t = "missing"
    THEN [exc |-> "ConverterError"]
    ELSE IF \E i \in DOMAIN config_paths : config_paths[i] = PyNone
    THEN [exc |-> "AttributeError"]
    ELSE [kwargs |-> config_to_kwargs(
                         _merge_configs([i \in DOMAIN config_paths |->
                                            config_paths[i].d]
                                        \o <<kwargs_to_config(kwargs)>>))]

\* the body of nc2zarr() up to the construction of the Converter
nc2zarr(c) ==
    LET r == load_config(c.params.config_paths, LoadConfigKwargs(c.params))
    IN  IF c.params.version THEN [c EXCEPT !.state = "version"]
        ELSE IF "exc" \in DOMAIN r
        THEN [c EXCEPT !.state = "failed", !.exc = r.exc]
        ELSE [c EXCEPT !.state = "loaded", !.config_kwargs = r.kwargs]

InitCli ==
    /\ cfg \in {c \in Configs : /\ ~c.overwrite /\ ~c.append /\ ~c.dry_run
                                /\ ~c.consolidated /\ c.tries = 1
                                /\ c.output_append_mode = "all"}
    /\ store = NoStore
    /\ w = [output_store |-> FALSE, output_path_exists |-> FALSE]
    /\ pc = "idle"
    /\ call = NoCall
    /\ ghost = [pre |-> store, store0 |-> store, attempts |-> 0,
                excs |-> <<>>, result |-> "none", raised |-> "none",
                hist |-> <<>>, faults |-> 0, writes |-> 0, removals |-> 0,
                removedAfterWrite |-> FALSE, last |-> NoStep]
    /\ fs = NoFind
    /\ conv = NoConv
    /\ job = NoJob
    /\ proc = NoProc
    /\ cli \in [state : {"new"}, exc : {"none"}, params : CliParams,
                config_kwargs : {<<>>}]
    /\ prep = NoPrep
    /\ batch = NoBatch
    /\ meta = NoMeta
    /\ res = NoRes

\* the nc2zarr command is run
Main ==
    /\ cli.state = "new"
    /\ cli' = nc2zarr(cli)
    /\ UNCHANGED <<cfg, store, w, pc, call, ghost, fs, conv, job, proc,
                 prep, batch, meta, res>>

NextCli == Main

SpecCli == InitCli /\ [][NextCli]_vars

\* ---- the metadata adjusted by _finalize_dataset (nc2zarr/writer.py) ------------

\* _np_timestamp_to_str: a time formatted with whole seconds
_np_timestamp_to_str(time_scalar) == time_scalar \div TicksPerSecond

\* _get_source_metadata: the source attribute followed by the joined .nc
\* input paths; a string is the sequence of its parts between ',\n', None
\* and the empty string are both <<>>. PyNone when there is nothing to name.
_get_source_metadata(m) ==
    LET nc_paths == SelectSeq(m.input_paths, LAMBDA path : path \in {"a.nc", "b.nc"})
    IN  IF nc_paths = <<>> THEN PyNone
        ELSE [t |-> "str", v |-> Append(m.attrs.source, nc_paths)]

\* _get_history_metadata: the history attribute and one more line, that of
\* the present time
_get_history_metadata(m) == [t |-> "str", v |-> Append(m.attrs.history, m.clock)]

\* _get_time_coverage_metadata: from the bounds of the time coordinate when
\* the store has them (each step's bounds begin at its time and end one
\* tick later), else from the coordinate
_get_time_coverage_metadata(m) ==
    IF m.time = <<>> THEN <<PyNone, PyNone>>
    ELSE IF m.has_bnds
    THEN <<PyInt(_np_timestamp_to_str(m.time[1])),
           PyInt(_np_timestamp_to_str(m.time[Len(m.time)] + 1))>>
    ELSE <<PyInt(_np_timestamp_to_str(m.time[1])),
           PyInt(_np_timestamp_to_str(m.time[Len(m.time)]))>>

\* the metadata_update dict of _finalize_dataset
MetadataUpdate(m) ==
    LET coverage == _get_time_coverage_metadata(m)
        adjusted_data ==
            [history |-> _get_history_metadata(m),
             source |-> _get_source_metadata(m),
             time_coverage_start |-> coverage[1],
             time_coverage_end |-> coverage[2]]
        adjusted == IF m.adjust_metadata
                    THEN [k \in {a \in DOMAIN adjusted_data :
                                    adjusted_data[a] # PyNone} |->
                             adjusted_data[k].v]
                    ELSE <<>>
    IN  DictUpdate(adjusted, m.output_metadata)

\* _finalize_dataset as to the attributes of the store: group.attrs.update
_finalize_dataset_attrs(m) ==
    IF m.dry_run THEN m.attrs
    ELSE LET u == MetadataUpdate(m)
         IN  [k \in DOMAIN m.attrs |->
                 IF k \in DOMAIN u THEN u[k] ELSE m.attrs[k]]

MetaCoords == 0 .. MaxMetaCoord

\* the attributes a store can have before it is finalized
MetaAttrs ==
    [history : {<<>>, <<0>>},
     source : {<<>>, <<<<"a.nc">>>>},
     time_coverage_start : {Empty, 0},
     time_coverage_end : {Empty, 1},
     title : {"None"}]

InitMeta ==
    /\ cfg \in {c \in Configs : /\ ~c.overwrite /\ ~c.append /\ ~c.dry_run
                                /\ ~c.consolidated /\ c.tries = 1
                                /\ c.output_append_mode = "all"}
    /\ store = NoStore
    /\ w = [output_store |-> FALSE, output_path_exists |-> FALSE]
    /\ pc = "idle"
    /\ call = NoCall
    /\ ghost = [pre |-> store, store0 |-> store, attempts |-> 0,
                excs |-> <<>>, result |-> "none", raised |-> "none",
                hist |-> <<>>, faults |-> 0, writes |-> 0, removals |-> 0,
                removedAfterWrite |-> FALSE, last |-> NoStep]
    /\ fs = NoFind
    /\ conv = NoConv
    /\ job = NoJob
    /\ proc = NoProc
    /\ cli = NoCli
    /\ prep = NoPrep
    /\ batch = NoBatch
    /\ meta \in [state : {"store"},
                 adjust_metadata : BOOLEAN,
                 dry_run : BOOLEAN,
                 input_paths : {<<>>, <<"a.nc">>, <<"a.zarr">>,
                                <<"a.nc", "b.nc">>, <<"a.zarr", "b.nc">>},
                 output_metadata : {<<>>, [title |-> "t"],
                                    [source |-> <<<<"given">>>>]},
                 attrs : MetaAttrs,
                 time : {<<>>} \cup
                        {t \in SeqsBetween(MetaCoords, 1, 2) : IsSorted(t)},
                 has_bnds : BOOLEAN,
                 clock : {1},
                 log : {<<>>}]
    /\ meta.time = <<>> => ~meta.has_bnds
    /\ res = NoRes

\* one run of nc2zarr --finalize-only on the store: finalize_dataset with
\* one try
FinalizeRun ==
    /\ meta.state = "store"
    /\ Len(meta.log) < MaxFinalizeRuns
    /\ LET attrs == _finalize_dataset_attrs(meta)
       IN  meta' = [meta EXCEPT !.attrs = attrs,
                                !.clock = @ + 1,
                                !.log = Append(@, attrs)]
    /\ UNCHANGED <<cfg, store, w, pc, call, ghost, fs, conv, job, proc, cli,
                   prep, batch, res>>

NextMeta == FinalizeRun

SpecMeta == InitMeta /\ [][NextMeta]_vars

\* ---- preprocess_dataset (nc2zarr/preprocessor.py) -------------------------------

\* an xarray dataset as far as its structure goes: per variable its
\* dimensions and whether it is a coordinate; the two time coverage
\* attributes; and whether the lengths met when a coordinate is assigned agree
\* with the lengths the dataset already has along that dimension
DsDims(d) == UNION {RangeOf(d.vars[n].dims) : n \in DOMAIN d.vars}

DataVars(d) == {n \in DOMAIN d.vars : ~d.vars[n].coord}

\* Dataset.drop_vars(names)
DropVars(d, names) ==
    [d EXCEPT !.vars = [n \in DOMAIN d.vars \ names |-> d.vars[n]]]

\* Dataset.drop_dims(dim): every variable that has the dimension goes
DropDims(d, dim) ==
    [d EXCEPT !.vars = [n \in {m \in DOMAIN d.vars :
                                  dim \notin RangeOf(d.vars[m].dims)} |->
                           d.vars[n]]]

\* Dataset.assign_coords({name: array with dims}): fails when the array's
\* length along a dimension the dataset has differs from the dataset's
AssignCoords(d, name, dims) ==
    IF RangeOf(dims) \cap DsDims(DropVars(d, {name})) # {} /\ ~d.sizes_agree
    THEN [exc |-> "ValueError"]
    ELSE [ds |-> [d EXCEPT !.vars =
                     [n \in DOMAIN d.vars \cup {name} |->
                         IF n = name THEN [dims |-> dims, coord |-> TRUE]
                         ELSE d.vars[n]]]]

\* Dataset.expand_dims({name: var}): fails when the dimension or a variable
\* of that name exists or var has more than one dimension; otherwise the
\* data variables get the new dimension in front and var's values become
\* its coordinate
ExpandDims(d, name, var) ==
    IF name \in DsDims(d) \/ name \in DOMAIN d.vars \/ Len(var.dims) > 1
    THEN [exc |-> "ValueError"]
    ELSE [ds |-> [d EXCEPT !.vars =
                     [n \in DOMAIN d.vars \cup {name} |->
                         IF n = name THEN [dims |-> <<name>>, coord |-> TRUE]
                         ELSE IF d.vars[n].coord THEN d.vars[n]
                         ELSE [d.vars[n] EXCEPT !.dims = <<name>> \o @]]]]

\* parse_timestamp of a time coverage attribute
parse_timestamp(string) ==
    IF string = "unparsable" THEN [exc |-> "ConverterError"] ELSE [ts |-> string]

\* get_time_coverage_from_ds: the exception raised, or "ok"
get_time_coverage_from_ds(d) ==
    LET start == IF d.time_coverage_start = "None" THEN [ts |-> "None"]
                 ELSE parse_timestamp(d.time_coverage_start)
        end   == IF d.time_coverage_end = "None" THEN [ts |-> "None"]
                 ELSE parse_timestamp(d.time_coverage_end)
    IN  IF "exc" \in DOMAIN start THEN start.exc
        ELSE IF "exc" \in DOMAIN end THEN end.exc
        ELSE IF start.ts = "None" /\ end.ts = "None" THEN "ConverterError"
        ELSE "ok"

\* the name of the bounds variable of the concat dimension variable
BoundsName(concat_dim_name) ==
    IF concat_dim_name = "time" THEN "time_bnds" ELSE "t_bnds"

\* the mutation of ExpandByConcatDim that leaves out expand_dims
ExpandByConcatDim_DropOnly(d, concat_dim_name, concat_dim_var) ==
    LET bnds_name == BoundsName(concat_dim_name)
        has_bnds  == bnds_name \in DOMAIN d.vars
        d1 == DropVars(d, IF has_bnds THEN {concat_dim_name, bnds_name}
                          ELSE {concat_dim_name})
        d2 == IF concat_dim_name \in DsDims(d1)
              THEN DropDims(d1, concat_dim_name) ELSE d1
    IN  IF ~has_bnds THEN [ds |-> d2]
        ELSE AssignCoords(d2, "time_bnds", d.vars[bnds_name].dims)

\* ensure_dataset_has_concat_dim when no data variable uses the dimension:
\* the coordinate and its bounds are dropped, the dataset is expanded by the
\* coordinate, and the bounds are assigned again
ExpandByConcatDim(d, concat_dim_name, concat_dim_var) ==
    LET bnds_name == BoundsName(concat_dim_name)
        has_bnds  == bnds_name \in DOMAIN d.vars
        d1 == DropVars(d, IF has_bnds THEN {concat_dim_name, bnds_name}
                          ELSE {concat_dim_name})
        d2 == IF concat_dim_name \in DsDims(d1)
              THEN DropDims(d1, concat_dim_name) ELSE d1
        e  == ExpandDims(d2, concat_dim_name, concat_dim_var)
    IN  IF "exc" \in DOMAIN e THEN e
        ELSE IF ~has_bnds THEN e
        ELSE AssignCoords(e.ds, "time_bnds", d.vars[bnds_name].dims)

\* ensure_dataset_has_concat_dim(ds, concat_dim_name)
ensure_dataset_has_concat_dim(d, concat_dim_name) ==
    LET present == concat_dim_name \in DOMAIN d.vars
        coverage == get_time_coverage_from_ds(d)
        a == IF present
             THEN IF d.vars[concat_dim_name].dims = <<>>
                  THEN AssignCoords(d, concat_dim_name, <<concat_dim_name>>)
                  ELSE [ds |-> d]
             ELSE IF concat_dim_name = "time"
             THEN IF coverage # "ok" THEN [exc |-> coverage]
                  ELSE LET t == AssignCoords(d, "time", <<"time">>)
                       IN  IF "exc" \in DOMAIN t THEN t
                           ELSE AssignCoords(t.ds, "time_bnds", <<"time", "bnds">>)
             ELSE [exc |-> "ConverterError"]
        concat_dim_var ==
            IF present THEN d.vars[concat_dim_name]
            ELSE [dims |-> <<"time">>, coord |-> TRUE]
    IN  IF "exc" \in DOMAIN a THEN a
        ELSE IF \E n \in DataVars(a.ds) :
                    concat_dim_name \in RangeOf(a.ds.vars[n].dims)
        THEN a
        ELSE ExpandByConcatDim(a.ds, concat_dim_name, concat_dim_var)

\* preprocess_dataset(ds) of a DatasetPreProcessor without custom
\* preprocessor
preprocess_dataset(p) ==
    LET d1 == IF p.input_variables = <<>> THEN p.ds
              ELSE DropVars(p.ds, DOMAIN p.ds.vars \ RangeOf(p.input_variables))
        r  == IF p.input_concat_dim = "None" THEN [ds |-> d1]
              ELSE ensure_dataset_has_concat_dim(d1, p.input_concat_dim)
    IN  IF "exc" \in DOMAIN r
        THEN [p EXCEPT !.state = "raised", !.exc = r.exc]
        ELSE [p EXCEPT !.state = "returned", !.new_ds = r.ds]

\* the variable named like the concat dimension: none, a scalar, a
\* coordinate along its own dimension, or an array along other dimensions
ConcatVars(name) ==
    {<<>>} \cup
    {[n \in {name} |-> v] :
        v \in {[dims |-> <<>>, coord |-> TRUE],
               [dims |-> <<name>>, coord |-> TRUE],
               [dims |-> <<"x">>, coord |-> FALSE],
               [dims |-> <<"x">>, coord |-> TRUE],
               [dims |-> <<"x", "y">>, coord |-> FALSE],
               [dims |-> <<"x", "y">>, coord |-> TRUE]}}

\* a data variable with or without the concat dimension
PlainVars(name) ==
    {<<>>} \cup
    {[n \in {"v"} |-> [dims |-> ds, coord |-> FALSE]] :
        ds \in {<<"x">>, <<name, "x">>}}

\* a bounds variable: a coordinate or a data variable, with or without the
\* concat dimension
BoundsVars(name) ==
    {<<>>} \cup
    {[n \in {BoundsName(name)} |-> v] :
        v \in {[dims |-> <<name, "bnds">>, coord |-> TRUE],
               [dims |-> <<name, "bnds">>, coord |-> FALSE],
               [dims |-> <<"bnds">>, coord |-> FALSE]}}

\* the datasets xarray can hold: a dimension never has the name of a scalar
\* variable, and a variable with the name of a dimension is a coordinate
PrepDatasets(name) ==
    {d \in [vars : {c @@ v @@ b : c \in ConcatVars(name), v \in PlainVars(name),
                                  b \in BoundsVars(name)},
            time_coverage_start : {"None", "unparsable", "2020-09-08"},
            time_coverage_end : {"None", "unparsable", "2020-09-09"},
            sizes_agree : BOOLEAN] :
        /\ (name \in DOMAIN d.vars /\ d.vars[name].dims = <<>>) =>
               name \notin DsDims(d)
        /\ (name \in DOMAIN d.vars /\ name \in DsDims(d)) =>
               d.vars[name].coord}

InitPreprocess ==
    /\ cfg \in {c \in Configs : /\ ~c.overwrite /\ ~c.append /\ ~c.dry_run
                                /\ ~c.consolidated /\ c.tries = 1
                                /\ c.output_append_mode = "all"}
    /\ store = NoStore
    /\ w = [output_store |-> FALSE, output_path_exists |-> FALSE]
    /\ pc = "idle"
    /\ call = NoCall
    /\ ghost = [pre |-> store, store0 |-> store, attempts |-> 0,
                excs |-> <<>>, result |-> "none", raised |-> "none",
                hist |-> <<>>, faults |-> 0, writes |-> 0, removals |-> 0,
                removedAfterWrite |-> FALSE, last |-> NoStep]
    /\ fs = NoFind
    /\ conv = NoConv
    /\ job = NoJob
    /\ proc = NoProc
    /\ cli = NoCli
    /\ prep \in UNION {[state : {"new"}, exc : {"none"},
                        input_concat_dim : {name},
                        input_variables : {<<>>, <<"v">>, <<name, "v">>},
                        ds : PrepDatasets(name), new_ds : {<<>>}] :
                       name \in {"time", "t"}}
               \cup [state : {"new"}, exc : {"none"},
                     input_concat_dim : {"None"},
                     input_variables : {<<>>, <<"v">>},
                     ds : PrepDatasets("time"), new_ds : {<<>>}]
    /\ batch = NoBatch
    /\ meta = NoMeta
    /\ res = NoRes

\* pre_processor.preprocess_dataset(ds) is called
PreprocessDataset ==
    /\ prep.state = "new"
    /\ prep' = preprocess_dataset(prep)
    /\ UNCHANGED <<cfg, store, w, pc, call, ghost, fs, conv, job, proc, cli,
                   batch, meta, res>>

NextPreprocess == PreprocessDataset

SpecPreprocess == InitPreprocess /\ [][NextPreprocess]_vars

\* ---- resolve_input_paths (nc2zarr/opener.py) ------------------------------------

\* a path is a directory and a file name in it; paths compare as strings do,
\* by directory and then by name
FilePaths == [dir : 1 .. MaxDirs, name : 1 .. MaxNames]

PathLess(a, b) == a.dir < b.dir \/ (a.dir = b.dir /\ a.name < b.name)

\* _sort_by_name_key: the basename of the path
_sort_by_name_key(path) == path.name

NameLess(a, b) == _sort_by_name_key(a) < _sort_by_name_key(b)

\* the orderings of a set
Perms(S) ==
    {q \in [1 .. Cardinality(S) -> S] : RangeOf(q) = S}

\* the file system: the existing files in the order in which a directory
\* listing gives them
Listings == UNION {Perms(S) : S \in SUBSET FilePaths}

\* an input path: one literal path, the files of one directory, or all files
InputPatterns ==
    [kind : {"path"}, path : FilePaths]
        \cup [kind : {"dir"}, dir : 1 .. MaxDirs]
        \cup {[kind |-> "all"]}

\* glob.glob(input_path, recursive=True) on the listing
Glob(listing, pattern) ==
    IF pattern.kind = "all" THEN listing
    ELSE SelectSeq(listing, LAMBDA f : f.dir = pattern.dir)

\* the loop over input_paths: the resolved files so far, or the error
RECURSIVE ResolveLoop(_, _, _)
ResolveLoop(listing, input_paths, resolved_input_files) ==
    IF input_paths = <<>> THEN [files |-> resolved_input_files]
    ELSE LET input_path == Head(input_paths)
         IN  IF input_path.kind = "path"
             THEN IF input_path.path \notin RangeOf(listing)
                  THEN [exc |-> "ConverterError"]
                  ELSE ResolveLoop(listing, Tail(input_paths),
                                   Append(resolved_input_files, input_path.path))
             ELSE LET glob_result == Glob(listing, input_path)
                  IN  IF glob_result = <<>>
                      THEN [exc |-> "ConverterError"]
                      ELSE ResolveLoop(listing, Tail(input_paths),
                                       resolved_input_files \o glob_result)

\* sorted(iterable, key): a stable sort, elements that compare equal keep
\* the order the iterable gave them in
\* the comparison of the sort keys: the path itself, or its basename
KeyLess(a, b, key) == IF key = "name" THEN NameLess(a, b) ELSE PathLess(a, b)

RECURSIVE Sorted(_, _)
Sorted(q, key) ==
    IF q = <<>> THEN <<>>
    ELSE LET rest == Sorted(Tail(q), key)
             k == Cardinality({i \in 1 .. Len(rest) :
                                  KeyLess(rest[i], Head(q), key)})
         IN  SubSeq(rest, 1, k) \o <<Head(q)>> \o SubSeq(rest, k + 1, Len(rest))

\* the resolved files without doubles, in the order of their first occurrence
RECURSIVE Unique(_, _)
Unique(q, seen) ==
    IF q = <<>> THEN <<>>
    ELSE IF Head(q) \in seen THEN Unique(Tail(q), seen)
    ELSE <<Head(q)>> \o Unique(Tail(q), seen \cup {Head(q)})

\* the orders in which set(resolved_input_files) can be iterated: a set of
\* strings has no defined order, it changes with the hash seed of the process
SetOrders(resolved) == Perms(RangeOf(resolved))

\* resolve_input_paths(input_paths, sort_by); order is the order in which the
\* set of resolved files is iterated in this invocation
resolve_input_paths(listing, input_paths, sort_by, order) ==
    IF input_paths = <<>> THEN [files |-> <<>>]
    ELSE LET r == ResolveLoop(listing, input_paths, <<>>)
         IN  IF "exc" \in DOMAIN r THEN r
             ELSE IF sort_by = "None" THEN [files |-> Unique(r.files, {})]
             ELSE IF sort_by \in {"path", "True"}
             THEN [files |-> Sorted(order, "path")]
             ELSE IF sort_by = "name"
             THEN [files |-> Sorted(order, "name")]
             ELSE [exc |-> "ConverterError"]

InitResolve ==
    /\ cfg \in {c \in Configs : /\ ~c.overwrite /\ ~c.append /\ ~c.dry_run
                                /\ ~c.consolidated /\ c.tries = 1
                                /\ c.output_append_mode = "all"}
    /\ store = NoStore
    /\ w = [output_store |-> FALSE, output_path_exists |-> FALSE]
    /\ pc = "idle"
    /\ call = NoCall
    /\ ghost = [pre |-> store, store0 |-> store, attempts |-> 0,
                excs |-> <<>>, result |-> "none", raised |-> "none",
                hist |-> <<>>, faults |-> 0, writes |-> 0, removals |-> 0,
                removedAfterWrite |-> FALSE, last |-> NoStep]
    /\ fs = NoFind
    /\ conv = NoConv
    /\ job = NoJob
    /\ proc = NoProc
    /\ cli = NoCli
    /\ prep = NoPrep
    /\ batch = NoBatch
    /\ meta = NoMeta
    /\ res \in [state : {"resolving"},
                listing : Listings,
                input_paths : SeqsBetween(InputPatterns, 0, MaxInputPaths),
                sort_by : {"None", "path", "name", "size"},
                results : {<<>>}]

\* one invocation of resolve_input_paths, in a process of its own
ResolveInputPaths ==
    /\ res.state = "resolving"
    /\ Len(res.results) < 2
    /\ LET r == ResolveLoop(res.listing, res.input_paths, <<>>)
           orders == IF "exc" \in DOMAIN r THEN {<<>>} ELSE SetOrders(r.files)
       IN  \E order \in orders :
              res' = [res EXCEPT !.results =
                         Append(@, resolve_input_paths(res.listing,
                                                       res.input_paths,
                                                       res.sort_by, order))]
    /\ UNCHANGED <<cfg, store, w, pc, call, ghost, fs, conv, job, proc, cli,
                   prep, batch, meta>>

NextResolve == ResolveInputPaths

SpecResolve == InitResolve /\ [][NextResolve]_vars

\* ---- find_slice on its own -----------------------------------------------------

FindStores ==
    {NoStore} \cup
    {ExistingStore(t, FALSE) : t \in SeqsBetween(Coords, 0, MaxFindLen)}

InitFind ==
    /\ cfg \in {c \in Configs : /\ ~c.overwrite /\ ~c.append /\ ~c.dry_run
                                /\ ~c.consolidated /\ c.tries = 1
                                /\ c.output_append_mode = "all"}
    /\ store = NoStore
    /\ w = [output_store |-> FALSE, output_path_exists |-> FALSE]
    /\ pc = "idle"
    /\ call = NoCall
    /\ ghost = [pre |-> store, store0 |-> store, attempts |-> 0,
                excs |-> <<>>, result |-> "none", raised |-> "none",
                hist |-> <<>>, faults |-> 0, writes |-> 0, removals |-> 0,
                removedAfterWrite |-> FALSE, last |-> NoStep]
    /\ fs \in [store : FindStores, target_value : Coords,
               epsilon : 1 .. Epsilon, result : {<<>>}]
    /\ conv = NoConv
    /\ job = NoJob
    /\ proc = NoProc
    /\ cli = NoCli
    /\ prep = NoPrep
    /\ batch = NoBatch
    /\ meta = NoMeta
    /\ res = NoRes

\* find_slice(store, target_value, dimension, epsilon) is called
FindSlice ==
    /\ fs.result = <<>>
    /\ fs' = [fs EXCEPT
                !.result = find_slice(fs.store, fs.target_value, fs.epsilon)]
    /\ UNCHANGED <<cfg, store, w, pc, call, ghost, conv, job, proc, cli,
                 prep, batch, meta, res>>

NextFind == FindSlice

SpecFind == InitFind /\ [][NextFind]_vars

\* ---- C8 ------------------------------------------------------------------------

\* coordinate i (1-based) of the store given to find_slice is within epsilon
FsMatch(i) == Abs(fs.target_value - fs.store.t[i]) < fs.epsilon

\* the scan stops at i: the coordinate is within epsilon or greater
FsHit(i) == FsMatch(i) \/ fs.target_value < fs.store.t[i]

FsFirstHit(i) == FsHit(i) /\ \A j \in 1 .. i - 1 : ~FsHit(j)

\* what C8 says of every case other than append
FsOtherCases ==
    /\ ~fs.store.exists => fs.result = <<-1, "create">>
    /\ fs.store.exists =>
        \A i \in 1 .. Len(fs.store.t) :
            FsFirstHit(i) =>
                fs.result = <<i - 1, IF FsMatch(i) THEN "replace" ELSE "insert">>

\* C8 as claimed: find_slice returns (-1, create) for a missing store, (i,
\* replace) or (i, insert) for the first index the scan stops at, and (-1,
\* append) exactly when the value is strictly greater than every existing
\* coordinate.
C8_AsClaimed ==
    fs.result # <<>> =>
        /\ FsOtherCases
        /\ fs.store.exists =>
            (fs.result = <<-1, "append">>
                <=> \A i \in 1 .. Len(fs.store.t) :
                        fs.target_value > fs.store.t[i])

\* C8, amended: as claimed, but find_slice returns (-1, append) exactly when
\* the value exceeds every existing coordinate by at least epsilon (a value
\* above the last coordinate but within epsilon of it is a replace).
C8_FindSlice ==
    fs.result # <<>> =>
        /\ FsOtherCases
        /\ fs.store.exists =>
            (fs.result = <<-1, "append">>
                <=> \A i \in 1 .. Len(fs.store.t) :
                        fs.target_value - fs.store.t[i] >= fs.epsilon)

\* C8 witness: a value above every coordinate of a non-empty store, within
\* epsilon of the last one, was located as a replace
C8_Witness ==
    /\ fs.store.exists
    /\ Len(fs.store.t) > 1
    /\ \A i \in 1 .. Len(fs.store.t) : fs.target_value > fs.store.t[i]
    /\ fs.result = <<Len(fs.store.t) - 1, "replace">>

\* ---- the last step of _append_with_insertions ----------------------------------

\* the last step was an iteration of the slice loop that did not raise
SliceDone == ghost.last.op = "slice" /\ ghost.last.exc = "none"

\* coordinate i (1-based) of the store before the step is within epsilon of
\* the incoming slice's coordinate
StepMatch(i) == Abs(ghost.last.val - ghost.last.before.t[i]) < Epsilon

\* the scan of the coordinates before the step stops at i
StepHit(i) == StepMatch(i) \/ ghost.last.val < ghost.last.before.t[i]

StepFirstHit(i) == StepHit(i) /\ \A j \in 1 .. i - 1 : ~StepHit(j)

\* arr with position i (1-based) set to x, nothing else changed
SetAt(arr, i, x) == [k \in 1 .. Len(arr) |-> IF k = i THEN x ELSE arr[k]]

\* arr with x put in front of position i (1-based)
PutAt(arr, i, x) ==
    SubSeq(arr, 1, i - 1) \o <<x>> \o SubSeq(arr, i, Len(arr))

\* the store after the step is the store before it with the slice at
\* position i replaced by the incoming slice
ReplacedAt(i) ==
    /\ store.t = SetAt(ghost.last.before.t, i, ghost.last.val)
    /\ store.v = SetAt(ghost.last.before.v, i, call.tag)
    /\ i <= Len(ghost.last.before.v)
    /\ store.s = ghost.last.before.s

\* ---- C3 ------------------------------------------------------------------------

\* C3 as claimed: in append mode replace, for an incoming slice whose
\* coordinate is within epsilon of the existing coordinate at index i, after
\* the slice is written the store's slice at i is the incoming slice and
\* every other slice and the length are unchanged.
C3_AsClaimed ==
    (cfg.output_append_mode = "replace" /\ SliceDone) =>
        \A i \in 1 .. Len(ghost.last.before.t) : StepMatch(i) => ReplacedAt(i)

\* C3, amended: in append mode replace, for an incoming slice whose
\* coordinate is within epsilon of the existing coordinate at index i, where
\* i is the first index whose coordinate is within epsilon of it or greater
\* than it, after the slice is written the store's slice at i is the
\* incoming slice and every other slice and the length are unchanged.
C3_Replace ==
    (cfg.output_append_mode = "replace" /\ SliceDone) =>
        \A i \in 1 .. Len(ghost.last.before.t) :
            (StepFirstHit(i) /\ StepMatch(i)) => ReplacedAt(i)

\* C3 witness: a slice of mode replace overwrote an existing slice whose
\* coordinate differed from its own
C3_Witness ==
    /\ cfg.output_append_mode = "replace"
    /\ SliceDone
    /\ \E i \in 1 .. Len(ghost.last.before.t) :
        /\ StepFirstHit(i) /\ StepMatch(i)
        /\ ghost.last.before.t[i] # ghost.last.val
        /\ store.t[i] = ghost.last.val
        /\ store.v[i] = call.tag
    /\ Len(store.t) > 1

\* ---- C4 ------------------------------------------------------------------------

NoStepMatch == \A i \in 1 .. Len(ghost.last.before.t) : ~StepMatch(i)

\* C4 as claimed: in append mode retain, an incoming slice whose coordinate
\* is within epsilon of an existing one is discarded and the store is
\* unchanged; one whose coordinate is greater than all existing coordinates
\* is appended at the end; one that falls between existing coordinates is
\* inserted at its sorted position.
C4_AsClaimed ==
    (cfg.output_append_mode = "retain" /\ SliceDone) =>
        LET old == ghost.last.before
            c   == ghost.last.val
        IN  /\ (\E i \in 1 .. Len(old.t) : StepMatch(i)) => store = old
            /\ (\A i \in 1 .. Len(old.t) : c > old.t[i]) =>
                /\ store.t = Append(old.t, c)
                /\ store.v = Append(old.v, call.tag)
            /\ (\E i, j \in 1 .. Len(old.t) : old.t[i] < c /\ c < old.t[j]) =>
                \E p \in 2 .. Len(old.t) :
                    /\ store.t = PutAt(old.t, p, c)
                    /\ store.v = PutAt(old.v, p, call.tag)

\* C4, amended: in append mode retain, an incoming slice whose coordinate is
\* within epsilon of an existing one is discarded and the store is
\* unchanged; one that is within epsilon of none and is greater than all
\* existing coordinates is appended at the end; one that is within epsilon
\* of none and falls between existing coordinates is inserted at its sorted
\* position.
C4_Retain ==
    (cfg.output_append_mode = "retain" /\ SliceDone) =>
        LET old == ghost.last.before
            c   == ghost.last.val
        IN  /\ (\E i \in 1 .. Len(old.t) : StepMatch(i)) => store = old
            /\ (NoStepMatch /\ \A i \in 1 .. Len(old.t) : c > old.t[i]) =>
                /\ store.t = Append(old.t, c)
                /\ store.v = Append(old.v, call.tag)
            /\ (NoStepMatch /\ \E i, j \in 1 .. Len(old.t) :
                                    old.t[i] < c /\ c < old.t[j]) =>
                \E p \in 2 .. Len(old.t) :
                    /\ store.t = PutAt(old.t, p, c)
                    /\ store.v = PutAt(old.v, p, call.tag)
                    /\ \A k \in 1 .. p - 1 : store.t[k] < c
                    /\ \A k \in p + 1 .. Len(store.t) : c < store.t[k]

\* C4 witness: a write in mode retain discarded a matching slice after it
\* had inserted another one between two existing slices
C4_Witness ==
    /\ cfg.output_append_mode = "retain"
    /\ SliceDone
    /\ ghost.last.mode = "replace"
    /\ store = ghost.last.before
    /\ \E p \in 2 .. Len(store.t) - 1 :
        /\ store.v[p] = call.tag
        /\ store.t[p - 1] < store.t[p]
        /\ store.t[p] < store.t[p + 1]

\* ---- C9 ------------------------------------------------------------------------

\* C9: update_slice in insert mode at index i on a store whose arrays along
\* the dimension have length n leaves every such array with length n+1, the
\* old slices 0..i-1 at 0..i-1, the new slice at i and the old slices i..n-1
\* at i+1..n, and leaves the array without the dimension alone; in replace
\* mode the length stays n and only position i changes.
C9_UpdateSlice ==
    (/\ SliceDone
     /\ Len(ghost.last.before.t) = Len(ghost.last.before.v)
     /\ \/ ghost.last.mode = "insert"
        \/ ghost.last.mode = "replace" /\ cfg.output_append_mode = "replace") =>
        LET old == ghost.last.before
            n   == Len(old.t)
            i   == ghost.last.idx
            Inserted(new, arr, x) ==
                /\ Len(new) = n + 1
                /\ \A k \in 0 .. i - 1 : new[k + 1] = arr[k + 1]
                /\ new[i + 1] = x
                /\ \A k \in i + 1 .. n : new[k + 1] = arr[k]
            Replaced(new, arr, x) ==
                /\ Len(new) = n
                /\ \A k \in 0 .. n - 1 :
                    new[k + 1] = IF k = i THEN x ELSE arr[k + 1]
        IN  /\ store.s = old.s
            /\ ghost.last.mode = "insert" =>
                /\ Inserted(store.t, old.t, ghost.last.val)
                /\ Inserted(store.v, old.v, call.tag)
            /\ ghost.last.mode = "replace" =>
                /\ Replaced(store.t, old.t, ghost.last.val)
                /\ Replaced(store.v, old.v, call.tag)

\* C9 witness: update_slice inserted a slice in front of at least two
\* existing slices and behind at least one
C9_Witness ==
    /\ SliceDone
    /\ ghost.last.mode = "insert"
    /\ ghost.last.idx >= 1
    /\ Len(ghost.last.before.t) = Len(ghost.last.before.v)
    /\ Len(ghost.last.before.t) >= ghost.last.idx + 2
    /\ Len(store.v) = Len(ghost.last.before.v) + 1

\* ---- C2 ------------------------------------------------------------------------

\* the running or finished call is the writer's first write_dataset call
FirstWrite == call.op = "write" /\ ghost.writes = 1 /\ ~cfg.dry_run

Max(t) == CHOOSE x \in {t[k] : k \in 1 .. Len(t)} :
              \A k \in 1 .. Len(t) : t[k] <= x

Min(t) == CHOOSE x \in {t[k] : k \in 1 .. Len(t)} :
              \A k \in 1 .. Len(t) : x <= t[k]

\* the last step was an attempt that took the append path
AppendAttempt == ghost.last.op = "append" /\ call.op = "write"

\* C5: in append mode no_overlap an append to an existing store is accepted
\* only if the store's coordinates are monotone increasing and their
\* maximum is strictly less than the minimum of the incoming coordinates;
\* in every other case the attempt fails with the append-order error.
C5_NoOverlap ==
    (/\ cfg.output_append_mode = "no_overlap"
     /\ AppendAttempt
     /\ ghost.last.before.exists
     /\ ghost.last.before.t # <<>>) =>
        LET old == ghost.last.before.t
            acceptable == /\ _is_append_dim_monotonic_increasing(old)
                          /\ Max(old) < Min(call.ds)
        IN  /\ ghost.last.exc = "none" => acceptable
            /\ ~acceptable =>
                ghost.last.exc \in
                    {"ValueError: existing values must be increasing",
                     "ValueError: values may not overlap"}

\* ---- C6 ------------------------------------------------------------------------

\* C6: in append mode newer an append whose incoming coordinates are not
\* monotone increasing fails; otherwise exactly the incoming slices whose
\* coordinate is strictly greater than the maximum existing coordinate are
\* appended, in their incoming order, the others are dropped and the
\* existing slices are unchanged.
C6_Newer ==
    (/\ cfg.output_append_mode = "newer"
     /\ AppendAttempt
     /\ ~cfg.dry_run
     /\ ghost.last.before.t # <<>>) =>
        LET old   == ghost.last.before
            newer == SelectSeq(call.ds, LAMBDA c : c > Max(old.t))
        IN  /\ ~_is_append_dim_monotonic_increasing(call.ds) =>
                /\ ghost.last.exc # "none"
                /\ store = old
            /\ ghost.last.exc = "none" =>
                /\ store.t = old.t \o newer
                /\ store.v = old.v \o Tags(Len(newer), call.tag)

\* C6 witness: an append in mode newer dropped the first incoming slice and
\* appended the second
C6_Witness ==
    /\ cfg.output_append_mode = "newer"
    /\ AppendAttempt
    /\ ~cfg.dry_run
    /\ ghost.last.exc = "none"
    /\ Len(call.ds) = 2
    /\ Len(store.t) = Len(ghost.last.before.t) + 1
    /\ call.ds[1] = Max(ghost.last.before.t)
    /\ store.t[Len(store.t)] = call.ds[2]

\* ---- C7 ------------------------------------------------------------------------

CheckErrors ==
    {"ValueError: existing values must be increasing",
     "ValueError: values may not overlap",
     "ValueError: appended values must be increasing"}

\* C7: in the append modes no_overlap, newer, replace and retain, whenever
\* the check of the coordinates fails in a write_dataset call, the store is
\* identical to its state before the call, on whichever attempt of the call
\* the check fails.
C7_CheckBeforeMutation ==
    (/\ cfg.output_append_mode # "all"
     /\ AppendAttempt
     /\ ghost.last.exc \in CheckErrors) =>
        store = ghost.pre

\* ---- C10 -----------------------------------------------------------------------

\* C10: write_dataset and finalize_dataset run their inner operation at most
\* tries times; an attempt that raises is followed by a further attempt
\* while attempts remain; the first attempt that succeeds ends the call;
\* when the last attempt fails its exception is raised to the caller.
C10_Retry ==
    call.op \in {"write", "finalize"} =>
        LET n == Len(ghost.excs) IN
        /\ ghost.attempts <= cfg.tries
        /\ n <= cfg.tries
        /\ ghost.attempts = IF pc = "slices" THEN n + 1 ELSE n
        /\ \A k \in 1 .. n - 1 : ghost.excs[k] # "none"
        /\ ghost.result = "none" =>
            /\ \A k \in 1 .. n : ghost.excs[k] # "none"
            /\ n < cfg.tries
            /\ pc \in {"slices", IF call.op = "write" THEN "write" ELSE "final"}
        /\ ghost.result = "returned" =>
            /\ n >= 1 /\ ghost.excs[n] = "none"
            /\ pc \in {"idle", "done"}
        /\ ghost.result = "raised" =>
            /\ n = cfg.tries
            /\ ghost.excs[n] # "none"
            /\ ghost.raised = ghost.excs[n]
            /\ pc = "done"

\* C10 witness: a call with two tries raised the exception of its second
\* attempt, which differs from the exception of its first
C10_Witness ==
    /\ call.op = "write"
    /\ ghost.result = "raised"
    /\ cfg.tries = 2
    /\ Len(ghost.excs) = 2
    /\ ghost.excs[1] # ghost.excs[2]
    /\ ghost.raised = ghost.excs[2]

\* ---- C1 ------------------------------------------------------------------------

RECURSIVE Concat(_)
Concat(seqs) == IF seqs = <<>> THEN <<>> ELSE Head(seqs) \o Concat(Tail(seqs))

\* the payloads of the datasets written: dataset k carries tag k
RECURSIVE PayloadsFrom(_, _)
PayloadsFrom(seqs, k) ==
    IF seqs = <<>> THEN <<>>
    ELSE Tags(Len(Head(seqs)), k) \o PayloadsFrom(Tail(seqs), k + 1)

\* the converter's run has ended without error: every write and the
\* finalization returned
RunCompleted ==
    /\ pc = "done"
    /\ call.op = "finalize"
    /\ ghost.result = "returned"
    /\ Len(ghost.hist) = ghost.writes

\* C1: after a run of the converter over N inputs that completes without
\* error on a store that was absent, or present with overwrite set, the
\* store's slices are the slices of input 1, ..., input N in that order,
\* nothing of the previous store survives, and the store was removed at
\* most once and never after a write.
C1_Concatenation ==
    (/\ RunCompleted
     /\ ~cfg.dry_run
     /\ ~ghost.store0.exists \/ cfg.overwrite) =>
        /\ store.t = Concat(ghost.hist)
        /\ store.v = PayloadsFrom(ghost.hist, 1)
        /\ ghost.removals <= 1
        /\ ~ghost.removedAfterWrite

\* ---- C11 -----------------------------------------------------------------------

\* C11: only a transient store I/O failure is followed by another attempt;
\* any other exception of an attempt of write_dataset ends the call, which
\* raises it to the caller after that single attempt.
C11_OnlyTransientRetried ==
    call.op = "write" =>
        \A k \in 1 .. Len(ghost.excs) :
            ghost.excs[k] \notin {"none", "IOError"} =>
                /\ k = 1
                /\ Len(ghost.excs) = 1
                /\ ghost.result = "raised"
                /\ ghost.raised = ghost.excs[k]

\* ---- C12 -----------------------------------------------------------------------

IsPrefix(p, q) == Len(p) <= Len(q) /\ p = SubSeq(q, 1, Len(p))

\* what every step of a run without finalize_only satisfies
RunStepInOrder ==
    /\ pc # "done"
    /\ ghost'.writes # ghost.writes =>
        /\ pc = "idle"
        /\ ghost'.writes = ghost.writes + 1
        /\ Len(ghost.hist) = ghost.writes
        /\ call'.op = "write"
        /\ call'.ds = cfg.inputs[ghost.writes + 1]
        /\ call'.append = IF ghost.writes = 0 THEN "None" ELSE "True"
    /\ (call'.op = "finalize" /\ pc = "idle") =>
        /\ ghost.writes = Len(cfg.inputs)
        /\ ghost.hist = cfg.inputs
    /\ IsPrefix(ghost'.hist, cfg.inputs)
    /\ (call'.op = "write" /\ ghost'.writes > 1 /\ ghost'.last.op # "none") =>
        ghost'.last.op = "append"
    /\ (call'.op = "write" /\ ghost'.result = "raised") => pc' = "done"

\* C12: in a run without finalize_only the datasets are written in the
\* order of the inputs, one write_dataset call per dataset, each call issued
\* only after the previous one returned, every call after the first an
\* append; finalize_dataset is called once, after the last write returned;
\* after a write that raised, and after the finalizer, nothing more happens.
C12_RunOrder == [][~cfg.finalize_only => RunStepInOrder]_vars

\* C12 witness: a run over two different inputs wrote both and finalized
C12_Witness ==
    /\ "inputs" \in DOMAIN cfg
    /\ ~cfg.finalize_only
    /\ Len(cfg.inputs) = 2
    /\ cfg.inputs[1] # cfg.inputs[2]
    /\ ghost.hist = cfg.inputs
    /\ call.op = "finalize"
    /\ pc = "done"
    /\ ghost.result = "returned"

\* ---- C13 -----------------------------------------------------------------------

\* C13: with finalize_only set the run issues no write, and when the output
\* store does not exist every attempt of the finalizer fails with the
\* store-not-found error, which the run raises, whatever adjust_metadata,
\* metadata and consolidated are.
C13_FinalizeOnly ==
    cfg.finalize_only =>
        /\ ghost.writes = 0
        /\ call.op # "write"
        /\ (~ghost.store0.exists /\ call.op = "finalize") =>
            /\ \A k \in 1 .. Len(ghost.excs) :
                ghost.excs[k] = "FileNotFoundError"
            /\ pc = "done" =>
                /\ ghost.result = "raised"
                /\ ghost.raised = "FileNotFoundError"

\* ---- C14 -----------------------------------------------------------------------

\* C14: after finalize_dataset returned outside a dry run, if consolidation
\* was requested or the store held consolidated metadata when the finalizer
\* was called, the consolidated metadata is a snapshot of the store's
\* current array shapes and group attributes.
C14_Consolidated ==
    (/\ call.op = "finalize"
     /\ ghost.result = "returned"
     /\ ~cfg.dry_run
     /\ cfg.consolidated \/ ghost.pre.zmeta # <<>>) =>
        store.zmeta = Snapshot(store)

\* ---- C15 -----------------------------------------------------------------------

\* C15: a Converter constructed with output_append_mode set to one of the
\* five modes (and otherwise valid arguments) exists and its writer applies
\* that mode; with any other value the construction fails with a ValueError.
C15_AppendModeHonoured ==
    (conv.state \in {"constructed", "failed"}
     /\ "output_append_mode" \in DOMAIN conv.kwargs) =>
        IF conv.kwargs.output_append_mode \in APPEND_MODES
        THEN (/\ conv.kwargs.input_paths # <<>>
              /\ ~(conv.kwargs.output_overwrite /\ conv.kwargs.output_append)) =>
                /\ conv.state = "constructed"
                /\ conv.writer_append_mode = conv.kwargs.output_append_mode
        ELSE /\ conv.state = "failed"
             /\ conv.exc = "ValueError"

\* ---- C16 -----------------------------------------------------------------------

\* C16: the writer of a constructed Converter appends along the configured
\* output_append_dim; if none is configured, along the configured
\* input_concat_dim; if neither is configured, along time; in multi-file
\* mode without input_concat_dim the inputs are concatenated along
\* output_append_dim if configured, else time.
C16_AppendDim ==
    conv.state = "constructed" =>
        /\ conv.output_append_dim =
               OrElse(conv.kwargs.output_append_dim,
                      OrElse(conv.kwargs.input_concat_dim, "time"))
        /\ (conv.kwargs.input_multi_file
            /\ conv.kwargs.input_concat_dim = "None") =>
               conv.input_concat_dim =
                   OrElse(conv.kwargs.output_append_dim, "time")

\* ---- observed batch jobs -------------------------------------------------------

IsSlurm(i) == i \in DOMAIN job /\ job[i].kind = "slurm"

IsLocal(i) == i \in DOMAIN job /\ job[i].kind = "local"

\* C17: once three polls in a row of a Slurm job have yielded no parseable
\* state, the observation of the job has ended and its status is unknown;
\* and while the job is observed, a poll that yielded a parseable state
\* leaves the count of unparseable polls at zero.
C17_ThreeNullPolls ==
    \A i \in JobIds : IsSlurm(i) =>
        /\ job[i].nulls >= 3 =>
              /\ ~job[i].observing
              /\ status(job[i]) = "Unknown"
        /\ (job[i].observing /\ job[i].polled \notin {"none", "None", "TimeoutExpired"}) =>
              job[i].num_null_polls = 0

\* C18: a local job's status is running while its child process runs; once
\* the process has exited, the observer eventually records the exit code and
\* ends the observation, closing the output files; from then on the status is
\* completed for exit code 0 and failed otherwise, done is true, and the
\* status does not change.
C18_LocalLifecycle ==
    /\ [](\A i \in JobIds :
             (IsLocal(i) /\ job[i].process = "running") =>
                 status(job[i]) = "Running")
    /\ \A i \in JobIds :
          (IsLocal(i) /\ job[i].process # "running")
              ~> (/\ IsLocal(i)
                  /\ job[i].state = job[i].process
                  /\ ~job[i].observing
                  /\ job[i].files = "closed")
    /\ [](\A i \in JobIds :
             (IsLocal(i) /\ ~job[i].observing) =>
                 /\ status(job[i]) =
                       IF job[i].process = "exit0" THEN "Completed" ELSE "Failed"
                 /\ done(job[i]) = "True")
    /\ [][\A i \in JobIds :
             (IsLocal(i) /\ ~job[i].observing) =>
                 status(job[i]') = status(job[i])]_vars


\* ---- process_dataset -----------------------------------------------------------

\* the user-supplied encoding of a process_dataset call, as a dict
UserEncoding ==
    IF proc.output_encoding.t = "None" THEN <<>> ELSE proc.output_encoding.d

\* C19: the encoding process_dataset returns has an entry exactly for the
\* variables of the dataset that the rechunk-derived or the user-supplied
\* encoding names, with the keys of both; chunks is the rechunk-derived value
\* whenever rechunking produced one for the variable, every other key present
\* in the user's encoding has the user's value, and a variable absent from the
\* dataset has no entry.
C19_EncodingMerge ==
    proc.state = "returned" =>
        /\ DOMAIN proc.encoding =
              DOMAIN proc.new_ds \cap
                  (DOMAIN proc.chunk_encoding \cup DOMAIN UserEncoding)
        /\ \A var \in DOMAIN proc.encoding :
              LET e == proc.encoding[var]
                  c == DictGet(proc.chunk_encoding, var, <<>>)
                  u == DictGet(UserEncoding, var, <<>>)
              IN  /\ DOMAIN e = DOMAIN c \cup DOMAIN u
                  /\ \A key \in DOMAIN e :
                        e[key] = IF key = "chunks" /\ key \in DOMAIN c THEN c[key]
                                 ELSE IF key \in DOMAIN u THEN u[key]
                                 ELSE c[key]


\* ---- command line precedence ---------------------------------------------------

\* the configurations of the files named on the command line, in order
CliFiles == [i \in DOMAIN cli.params.config_paths |-> cli.params.config_paths[i].d]

\* the files, among the first n, whose section (or top level, for "") has key
Holders(section, key, n) ==
    {i \in 1 .. n :
        IF section = "" THEN key \in DOMAIN CliFiles[i]
        ELSE /\ section \in DOMAIN CliFiles[i]
             /\ key \in DOMAIN CliFiles[i][section].d}

HeldValue(section, key, i) ==
    IF section = "" THEN CliFiles[i][key] ELSE CliFiles[i][section].d[key]

RECURSIVE FileValue(_, _, _)
\* what the first n configuration files say for a key: maps merge key by
\* key, so the key's values meet; a list extends a list, and otherwise the
\* later value stands; None when no file has the key
FileValue(section, key, n) ==
    LET hs == Holders(section, key, n)
    IN  IF hs = {} THEN PyNone
        ELSE LET last == CHOOSE i \in hs : \A j \in hs : j <= i
                 v == HeldValue(section, key, last)
                 before == FileValue(section, key, last - 1)
             IN  IF v.t = "list" /\ before.t = "list"
                 THEN PyList(before.v \o v.v)
                 ELSE v

\* the value the command line gives for a keyword, None when not given
GivenValue(k) ==
    IF k = "input_paths"
    THEN IF cli.params.input_paths = <<>> THEN PyNone
         ELSE PyTuple(cli.params.input_paths)
    ELSE IF k = "input_multi_file" THEN cli.params.multi_file
    ELSE IF k = "input_concat_dim" THEN cli.params.concat_dim
    ELSE IF k = "output_overwrite" THEN cli.params.overwrite
    ELSE IF k = "dry_run" THEN cli.params.dry_run
    ELSE IF k = "verbosity"
    THEN IF cli.params.verbose = 0 THEN PyNone ELSE PyInt(cli.params.verbose)
    ELSE PyNone

\* the value the Converter receives for a keyword, None when it gets none
PassedValue(k) == DictGet(cli.config_kwargs, k, PyNone)

\* C20: in the keyword arguments handed to the Converter, input paths given
\* on the command line stand alone (the paths of the configuration files are
\* not part of them), any other option given has the command line's value,
\* and a keyword whose option is not given has the value of the configuration
\* files, where maps merge key by key, lists concatenate and later scalars
\* overwrite earlier ones.
C20_Precedence ==
    cli.state = "loaded" =>
        \A k \in DOMAIN KwargParts :
            PassedValue(k) =
                IF GivenValue(k) # PyNone THEN GivenValue(k)
                ELSE FileValue(KwargParts[k][1], KwargParts[k][2],
                               Len(cli.params.config_paths))

\* a command line with input paths and an option was merged over two
\* configuration files that both list input paths and set the option's key;
\* and another key, not given, was taken from the files' concatenated lists
C20_Witness ==
    /\ cli.state = "loaded"
    /\ Len(cli.params.config_paths) = 2
    /\ cli.params.input_paths # <<>>
    /\ cli.params.multi_file = PyBool(TRUE)
    /\ cli.params.concat_dim = PyNone
    /\ \A i \in 1 .. 2 :
          /\ "input" \in DOMAIN CliFiles[i]
          /\ {"paths", "multi_file"} \subseteq DOMAIN CliFiles[i].input.d
          /\ CliFiles[i].input.d.paths.t = "list"
    /\ "concat_dim" \in DOMAIN CliFiles[1].input.d
    /\ PassedValue("input_paths") = PyTuple(cli.params.input_paths)
    /\ PassedValue("input_multi_file") = PyBool(TRUE)
    /\ PassedValue("input_concat_dim") = PyStr("t")


\* ---- C21 -----------------------------------------------------------------------

\* C21: with dry_run set, the output store is at every moment what it was
\* when the writer was constructed, whatever write_dataset and
\* finalize_dataset calls were made, completed, failed or retried.
C21_DryRunWritesNothing == cfg.dry_run => store = ghost.store0

\* a dry run with overwrite on an existing store wrote a dataset and then
\* completed a finalizer that has a metadata update and consolidates
C21_Witness ==
    /\ cfg.dry_run
    /\ cfg.overwrite
    /\ cfg.consolidated
    /\ cfg.metadata
    /\ cfg.adjust_metadata
    /\ ghost.store0.exists
    /\ ghost.hist # <<>>
    /\ call.op = "finalize"
    /\ ghost.result = "returned"


\* ---- C22 -----------------------------------------------------------------------

\* C22: a construction of a Converter with both output_overwrite and
\* output_append set has failed with a ConverterError, and nothing was
\* written to or removed from the output store.
C22_MutuallyExclusive ==
    (/\ conv.state \in {"constructed", "failed"}
     /\ conv.kwargs.output_overwrite
     /\ conv.kwargs.output_append) =>
        /\ conv.state = "failed"
        /\ conv.exc = "ConverterError"
        /\ store = ghost.store0
        /\ ~w.output_store
        /\ ghost.writes = 0


\* ---- C23 -----------------------------------------------------------------------

\* C23: when preprocess_dataset with a concat dimension configured has
\* returned, the returned dataset has that dimension and a coordinate
\* variable of the same name.
C23_ConcatDimEnsured ==
    (prep.state = "returned" /\ prep.input_concat_dim # "None") =>
        /\ prep.input_concat_dim \in DsDims(prep.new_ds)
        /\ prep.input_concat_dim \in DOMAIN prep.new_ds.vars
        /\ prep.new_ds.vars[prep.input_concat_dim].coord

\* a dataset without a time variable and without any variable along time got
\* its time dimension from the time coverage attributes
C23_Witness ==
    /\ prep.state = "returned"
    /\ prep.input_concat_dim = "time"
    /\ "time" \notin DOMAIN prep.ds.vars
    /\ "time" \notin DsDims(prep.ds)
    /\ "v" \in DOMAIN prep.ds.vars
    /\ prep.new_ds.vars["v"].dims = <<"time", "x">>


\* ---- C24 -----------------------------------------------------------------------

\* C24: after a write_dataset call in replace or retain mode has ended, by
\* returning or by raising, the coordinate array and the data array of the
\* store have the same length along append_dim.
C24_SameLength ==
    (/\ call.op = "write"
     /\ cfg.output_append_mode \in {"replace", "retain"}
     /\ ghost.result \in {"returned", "raised"}) =>
        Len(store.t) = Len(store.v)

\* ---- C25 -----------------------------------------------------------------------

\* C25: in append mode replace, a store whose coordinate was non-decreasing
\* before write_dataset has a non-decreasing coordinate after every
\* per-slice step of the write and after the call.
C25_ReplaceKeepsOrder ==
    (/\ call.op = "write"
     /\ cfg.output_append_mode = "replace"
     /\ IsSorted(ghost.pre.t)) =>
        IsSorted(store.t)


\* ---- C26 -----------------------------------------------------------------------

\* the number of slices of arr that carry the payload of the current call
SlicesOfCall(arr) == Cardinality({k \in 1 .. Len(arr) : arr[k] = call.tag})

\* C26: when write_dataset has returned normally in append mode all,
\* possibly after failed attempts that were retried, every slice of the
\* written dataset is in the store exactly once in every variable.
C26_ExactlyOnce ==
    (/\ call.op = "write"
     /\ ghost.result = "returned"
     /\ ~cfg.dry_run
     /\ cfg.output_append_mode = "all") =>
        /\ SlicesOfCall(store.v) = Len(call.ds)
        /\ Len(store.t) = Len(store.v)


\* ---- C27 -----------------------------------------------------------------------

\* C27: at any moment after LocalJob.submit_job has returned, also before the
\* observer thread has completed its first poll, the job's status is
\* running, completed or failed and done is true or false; neither raises.
C27_LocalJobQueryable ==
    \A i \in JobIds : IsLocal(i) =>
        /\ status(job[i]) \in {"Running", "Completed", "Failed"}
        /\ done(job[i]) \in {"True", "False"}


\* ---- C28 -----------------------------------------------------------------------

\* C28: once the observation of every submitted job has ended, the wait loop
\* of nc2zarr-batch eventually stops polling and the command exits.
C28_WaitLoopTerminates ==
    (\A i \in JobIds : ~job[i].observing) ~> batch.state # "waiting"


\* ---- C29 -----------------------------------------------------------------------

\* C29: after finalize_dataset with adjust_metadata has run twice on the same
\* store with the same input list, source, time_coverage_start and
\* time_coverage_end are as after the first run, and history has grown by
\* one line per run.
C29_FinalizeIdempotent ==
    (/\ meta.state = "store" /\ meta.adjust_metadata /\ ~meta.dry_run
     /\ Len(meta.log) >= 2) =>
        LET first == meta.log[1]
            second == meta.log[2]
        IN  /\ second.source = first.source
            /\ second.time_coverage_start = first.time_coverage_start
            /\ second.time_coverage_end = first.time_coverage_end
            /\ Len(first.history) + 1 = Len(second.history)
            /\ SubSeq(second.history, 1, Len(first.history)) = first.history


\* ---- C30 -----------------------------------------------------------------------

\* C30: two invocations of resolve_input_paths on the same file system with
\* the same input paths and the same sort_by return the same sequence.
C30_Deterministic ==
    (res.state = "resolving" /\ Len(res.results) = 2) =>
        res.results[1] = res.results[2]

====
